---- MODULE Spec2Model ----
(***************************************************************************)
(* Paper-trading core of the Fyers OHLC backend: Order, Position,         *)
(* Portfolio and PaperTradingEngine (app/paper_trading).                   *)
(*                                                                         *)
(* Money is counted in hundredths of a currency unit (paise), so the       *)
(* 0.01 tolerance of the accounting checks is 1.  slippage_percent is      *)
(* counted in hundredths of a percent and max_position_size in percent of  *)
(* the initial capital.  The input prices are chosen so that every         *)
(* product and slippage amount is an exact integer.                        *)
(***************************************************************************)
EXTENDS Integers, Sequences, FiniteSets, TLC

VARIABLES
    engine,     \* the PaperTradingEngine object of the session (with its Portfolio)
    call,       \* the name of the operation invoked last
    ret,        \* what that operation returned (or raised)
    threads,    \* the request handlers running place_order concurrently
    auto,       \* the AutomatedTradingEngine object wrapped around engine
    signals,    \* the votes handed to aggregate_signals
    decision,   \* what aggregate_signals returned for them
    df,         \* the candles handed to run_strategies
    active_engines,             \* routes: session id -> AutomatedTradingEngine
    background_tasks_status,    \* routes: session id -> status entry
    heap,       \* the AutomatedTradingEngine objects created by /start
    tasks,      \* the background tasks scheduled by /start
    response,   \* the last HTTP response of the automated-trading routes
    paper_trading_engines       \* routes: session id -> PaperTradingEngine

aggregateVars == <<signals, decision, df>>
sessionVars == <<active_engines, background_tasks_status, heap, tasks, response,
                 paper_trading_engines>>
vars == <<engine, call, ret, threads, auto, aggregateVars, sessionVars>>

(***************************************************************************)
(* Bounds and input sets                                                   *)
(***************************************************************************)
MaxQty == 2
MaxOrders == 2
MaxConcOrders == 2

None == -1                      \* Python's None in an Optional number
MoneyScale == 100               \* model units per currency unit
PercentScale == 100             \* slippage_percent units per percent
Tolerance == 1                  \* 0.01 currency units ("1 paisa tolerance")

Symbols == {"A", "B"}
Sides == {"BUY", "SELL"}
OrderTypes == {"MARKET"}
Quantities == 0 .. MaxQty
P1 == 100 * MoneyScale
P2 == 200 * MoneyScale
Prices == {0, P1, P2}
MarkPrices == {P1, P2}
\* (stop_loss, target) pairs a BUY is placed with
Brackets == {<<None, None>>, <<P1, P2>>}
Threads == {1, 2}

\* engine configurations of a session: initial_capital, max_positions,
\* max_position_size, brokerage_per_trade, slippage_percent
Configs ==
    { [initial_capital |-> 400 * MoneyScale, max_positions |-> c[3],
       max_position_size |-> 60, brokerage_per_trade |-> c[1],
       slippage_percent |-> c[2], allow_short |-> FALSE] :
         c \in {<<0, 0, 1>>, <<20 * MoneyScale, 10, 2>>} }

(***************************************************************************)
(* Sequence helpers                                                        *)
(***************************************************************************)
RECURSIVE SumSeq(_)
SumSeq(s) == IF s = <<>> THEN 0 ELSE Head(s) + SumSeq(Tail(s))

Abs(x) == IF x < 0 THEN -x ELSE x

(***************************************************************************)
(* Order (order.py)                                                        *)
(***************************************************************************)
Order(id, symbol, side, quantity, order_type, price) ==
    [order_id |-> id, symbol |-> symbol, side |-> side, quantity |-> quantity,
     order_type |-> order_type, price |-> price, status |-> "PENDING",
     executed_price |-> None, executed_quantity |-> None,
     rejection_reason |-> "None"]

Order_execute(o, price, quantity) ==
    [o EXCEPT !.status = "EXECUTED", !.executed_price = price,
              !.executed_quantity = quantity]

Order_reject(o, reason) ==
    [o EXCEPT !.status = "REJECTED", !.rejection_reason = reason]

Order_cancel(o) == [o EXCEPT !.status = "CANCELLED"]

(***************************************************************************)
(* Position (position.py)                                                  *)
(***************************************************************************)
Position(id, symbol, side, quantity, entry_price, stop_loss, target) ==
    [position_id |-> id, symbol |-> symbol, side |-> side,
     quantity |-> quantity, entry_price |-> entry_price,
     current_price |-> entry_price, exit_price |-> None, is_open |-> TRUE,
     stop_loss |-> stop_loss, target |-> target,
     \* attributes the AutomatedTradingEngine attaches to the object
     strategy |-> <<>>, exit_reason |-> "None"]

Position_unrealized_pnl(p) ==
    IF ~p.is_open \/ p.current_price = None THEN 0
    ELSE IF p.side = "LONG" THEN (p.current_price - p.entry_price) * p.quantity
    ELSE (p.entry_price - p.current_price) * p.quantity

Position_realized_pnl(p) ==
    IF p.is_open \/ p.exit_price = None THEN 0
    ELSE IF p.side = "LONG" THEN (p.exit_price - p.entry_price) * p.quantity
    ELSE (p.entry_price - p.exit_price) * p.quantity

Position_update_price(p, price) ==
    IF p.is_open THEN [p EXCEPT !.current_price = price] ELSE p

\* close without the "already closed" test
Position_close_unguarded(p, exit_price) ==
    LET q == [p EXCEPT !.is_open = FALSE, !.exit_price = exit_price]
    IN  [raised |-> FALSE, pos |-> q,
         pnl |-> IF q.side = "LONG"
                 THEN (q.exit_price - q.entry_price) * q.quantity
                 ELSE (q.entry_price - q.exit_price) * q.quantity]

\* close returns the realized P&L, or raises ValueError and leaves p alone
Position_close(p, exit_price) ==
    IF ~p.is_open
    THEN [raised |-> TRUE, pos |-> p, pnl |-> 0]
    ELSE LET q == [p EXCEPT !.is_open = FALSE, !.exit_price = exit_price]
         IN  [raised |-> FALSE, pos |-> q, pnl |-> Position_realized_pnl(q)]

should_trigger_stop_loss(p) ==
    IF ~p.is_open \/ p.stop_loss = None \/ p.current_price = None THEN FALSE
    ELSE IF p.side = "LONG" THEN p.current_price <= p.stop_loss
    ELSE p.current_price >= p.stop_loss

should_trigger_target(p) ==
    IF ~p.is_open \/ p.target = None \/ p.current_price = None THEN FALSE
    ELSE IF p.side = "LONG" THEN p.current_price >= p.target
    ELSE p.current_price <= p.target

(***************************************************************************)
(* Portfolio (portfolio.py).  positions is the dict symbol -> Position,    *)
(* kept as the sequence of its values in insertion order.                  *)
(***************************************************************************)
Portfolio(initial_capital, brokerage_per_trade, slippage_percent) ==
    [initial_capital |-> initial_capital, current_capital |-> initial_capital,
     positions |-> <<>>, closed_positions |-> <<>>,
     brokerage_per_trade |-> brokerage_per_trade,
     slippage_percent |-> slippage_percent, total_brokerage_paid |-> 0]

KeyIndex(d, symbol) ==
    LET I == {i \in DOMAIN d : d[i].symbol = symbol}
    IN  IF I = {} THEN 0 ELSE CHOOSE i \in I : \A j \in I : i <= j

DictSet(d, symbol, v) ==
    IF KeyIndex(d, symbol) = 0 THEN Append(d, v)
    ELSE [d EXCEPT ![KeyIndex(d, symbol)] = v]

DictPop(d, symbol) ==
    LET k == KeyIndex(d, symbol)
    IN  SubSeq(d, 1, k - 1) \o SubSeq(d, k + 1, Len(d))

\* has_position looking the symbol up in the wrong collection
has_position_in_closed(pf, symbol) == KeyIndex(pf.closed_positions, symbol) # 0

has_position(pf, symbol) == KeyIndex(pf.positions, symbol) # 0

get_position(pf, symbol) == pf.positions[KeyIndex(pf.positions, symbol)]

invested_capital(pf) ==
    SumSeq([i \in DOMAIN pf.positions |->
              pf.positions[i].entry_price * pf.positions[i].quantity])

unrealized_pnl(pf) ==
    SumSeq([i \in DOMAIN pf.positions |-> Position_unrealized_pnl(pf.positions[i])])

realized_pnl(pf) ==
    SumSeq([i \in DOMAIN pf.closed_positions |->
              Position_realized_pnl(pf.closed_positions[i])])

total_pnl(pf) == realized_pnl(pf) + unrealized_pnl(pf)

portfolio_value(pf) ==
    pf.current_capital + invested_capital(pf) + unrealized_pnl(pf)

\* add_position raises ValueError when the symbol is already a key
add_position(pf, position) ==
    IF has_position(pf, position.symbol)
    THEN [raised |-> TRUE, pf |-> pf]
    ELSE [raised |-> FALSE,
          pf |-> [pf EXCEPT !.positions = DictSet(@, position.symbol, position)]]

\* the position appended to closed_positions and left in the dict
remove_position_kept(pf, symbol) ==
    IF ~has_position(pf, symbol)
    THEN [raised |-> TRUE, pf |-> pf]
    ELSE [raised |-> FALSE,
          pf |-> [pf EXCEPT !.closed_positions =
                                Append(@, get_position(pf, symbol))]]

\* remove_position raises ValueError when the symbol is not a key
remove_position(pf, symbol) ==
    IF ~has_position(pf, symbol)
    THEN [raised |-> TRUE, pf |-> pf]
    ELSE [raised |-> FALSE,
          pf |-> [pf EXCEPT !.positions = DictPop(@, symbol),
                            !.closed_positions =
                                Append(@, get_position(pf, symbol))]]

update_positions_price(pf, symbol, price) ==
    IF has_position(pf, symbol)
    THEN [pf EXCEPT !.positions[KeyIndex(pf.positions, symbol)] =
                        Position_update_price(@, price)]
    ELSE pf

\* the brokerage taken from the cash without being added to the total
apply_brokerage_uncounted(pf) ==
    [pf EXCEPT !.current_capital = @ - pf.brokerage_per_trade]

apply_brokerage(pf) ==
    [pf EXCEPT !.current_capital = @ - pf.brokerage_per_trade,
               !.total_brokerage_paid = @ + pf.brokerage_per_trade]

apply_slippage(pf, price, is_buy) ==
    IF pf.slippage_percent = 0 THEN price
    ELSE LET slippage_amount == (price * pf.slippage_percent) \div (100 * PercentScale)
         IN  IF is_buy THEN price + slippage_amount ELSE price - slippage_amount

(***************************************************************************)
(* PaperTradingEngine (engine.py)                                          *)
(***************************************************************************)
PaperTradingEngine(cfg) ==
    [portfolio |-> Portfolio(cfg.initial_capital, cfg.brokerage_per_trade,
                             cfg.slippage_percent),
     max_positions |-> cfg.max_positions,
     max_position_size |-> cfg.max_position_size,
     allow_short |-> cfg.allow_short,
     orders |-> <<>>, trades |-> <<>>, next_id |-> 1]

NoOrder == Order(0, "None", "None", 0, "None", 0)

_rejection_response(reason) ==
    [status |-> "REJECTED", message |-> reason, order_id |-> 0,
     trigger |-> "None"]

success_response(message, order) ==
    [status |-> "SUCCESS", message |-> message, order_id |-> order.order_id,
     trigger |-> "None"]

error_response(exception) ==
    [status |-> "ERROR", message |-> exception, order_id |-> 0,
     trigger |-> "None"]

\* the max-positions test with > for >=
max_positions_exceeded(eng) ==
    Len(eng.portfolio.positions) > eng.max_positions

\* engine.py:133, the max-positions test of a BUY
max_positions_reached(eng) ==
    Len(eng.portfolio.positions) >= eng.max_positions

\* the quantity test comparing with the order's own quantity
exceeds_own_quantity(order, position) ==
    order.quantity > order.quantity

\* engine.py:214, the quantity test of a SELL
exceeds_held_quantity(order, position) ==
    order.quantity > position.quantity

\* a rejection that still charges the brokerage of the trade
Rejected_charged(eng, order, reason) ==
    [eng |-> [eng EXCEPT !.portfolio = apply_brokerage(@)],
     order |-> Order_reject(order, reason), raised |-> FALSE,
     result |-> _rejection_response(reason)]

\* a SELL without a position opening a SHORT position when allow_short is
\* set, every other rejection as it is
Rejected_unless_short(eng, order, reason) ==
    IF /\ order.side = "SELL"
       /\ eng.allow_short
       /\ ~has_position(eng.portfolio, order.symbol)
    THEN [eng |-> [eng EXCEPT !.portfolio =
                      add_position(@, Position(order.order_id, order.symbol,
                                               "SHORT", order.quantity,
                                               order.price, None, None)).pf],
          order |-> Order_execute(order, order.price, order.quantity),
          raised |-> FALSE,
          result |-> success_response("SELL order executed successfully",
                                      order)]
    ELSE [eng |-> eng, order |-> Order_reject(order, reason),
          raised |-> FALSE, result |-> _rejection_response(reason)]

\* order.reject(reason) followed by return self._rejection_response(reason)
Rejected(eng, order, reason) ==
    [eng |-> eng, order |-> Order_reject(order, reason), raised |-> FALSE,
     result |-> _rejection_response(reason)]

_execute_buy_order(eng, order, price, stop_loss, target) ==
    LET pf == eng.portfolio
        execution_price == apply_slippage(pf, price, TRUE)
        required_capital == execution_price * order.quantity
        max_allowed == (pf.initial_capital * eng.max_position_size) \div 100
        total_cost == required_capital + pf.brokerage_per_trade
        executed == Order_execute(order, execution_price, order.quantity)
        pf1 == [pf EXCEPT !.current_capital = @ - required_capital]
        pf2 == apply_brokerage(pf1)
        position == Position(order.order_id, order.symbol, "LONG",
                             order.quantity, execution_price, stop_loss, target)
        added == add_position(pf2, position)
        trade == [order_id |-> order.order_id, symbol |-> order.symbol,
                  side |-> "BUY", quantity |-> order.quantity,
                  price |-> execution_price, value |-> required_capital,
                  brokerage |-> pf.brokerage_per_trade, realized_pnl |-> None]
    IN  IF has_position(pf, order.symbol)
        THEN Rejected(eng, order, "Position already exists for this symbol")
        ELSE IF max_positions_reached(eng)
        THEN Rejected(eng, order, "Maximum positions limit reached")
        ELSE IF required_capital > max_allowed
        THEN Rejected(eng, order, "Position size exceeds limit")
        ELSE IF pf.current_capital < total_cost
        THEN Rejected(eng, order, "Insufficient capital")
        ELSE IF added.raised
        THEN [eng |-> [eng EXCEPT !.portfolio = pf2], order |-> executed,
              raised |-> TRUE, result |-> error_response("ValueError")]
        ELSE [eng |-> [eng EXCEPT !.portfolio = added.pf,
                                  !.trades = Append(@, trade)],
              order |-> executed, raised |-> FALSE,
              result |-> success_response("BUY order executed successfully",
                                          executed)]

_execute_sell_order(eng, order, price) ==
    LET pf == eng.portfolio
        position == get_position(pf, order.symbol)
        execution_price == apply_slippage(pf, price, FALSE)
        executed == Order_execute(order, execution_price, order.quantity)
        closed == Position_close(position, execution_price)
        \* position is the object held by the dict: closing it is seen there
        pf0 == [pf EXCEPT !.positions[KeyIndex(pf.positions, order.symbol)] =
                              closed.pos]
        proceeds == execution_price * order.quantity
        pf1 == [pf0 EXCEPT !.current_capital = @ + proceeds]
        pf2 == apply_brokerage(pf1)
        removed == remove_position(pf2, order.symbol)
        trade == [order_id |-> order.order_id, symbol |-> order.symbol,
                  side |-> "SELL", quantity |-> order.quantity,
                  price |-> execution_price, value |-> proceeds,
                  brokerage |-> pf.brokerage_per_trade,
                  realized_pnl |-> closed.pnl]
    IN  IF ~has_position(pf, order.symbol)
        THEN Rejected(eng, order, "No open position to sell")
        ELSE IF exceeds_held_quantity(order, position)
        THEN Rejected(eng, order, "Insufficient quantity")
        ELSE IF closed.raised
        THEN [eng |-> eng, order |-> executed, raised |-> TRUE,
              result |-> error_response("ValueError")]
        ELSE IF removed.raised
        THEN [eng |-> [eng EXCEPT !.portfolio = pf2], order |-> executed,
              raised |-> TRUE, result |-> error_response("ValueError")]
        ELSE [eng |-> [eng EXCEPT !.portfolio = removed.pf,
                                  !.trades = Append(@, trade)],
              order |-> executed, raised |-> FALSE,
              result |-> success_response("SELL order executed successfully",
                                          executed)]

\* place_order: validation, Order creation, dispatch on the side, and the
\* append to the order history (skipped when the dispatch raised)
place_order(eng, symbol, side, quantity, price, order_type, stop_loss, target) ==
    LET order_side == IF side = "BUY" THEN "BUY" ELSE "SELL"
        order == Order(eng.next_id, symbol, order_side, quantity, order_type, price)
        eng1 == [eng EXCEPT !.next_id = @ + 1]
        r == IF order_side = "BUY"
             THEN _execute_buy_order(eng1, order, price, stop_loss, target)
             ELSE _execute_sell_order(eng1, order, price)
    IN  IF quantity <= 0
        THEN [eng |-> eng, result |-> _rejection_response("Quantity must be positive")]
        ELSE IF price <= 0
        THEN [eng |-> eng, result |-> _rejection_response("Price must be positive")]
        ELSE IF r.raised
        THEN [eng |-> r.eng, result |-> r.result]
        ELSE [eng |-> [r.eng EXCEPT !.orders = Append(@, r.order)],
              result |-> r.result]

update_position_prices(eng, prices) ==
    LET RECURSIVE upd(_, _)
        upd(pf, S) ==
            IF S = {} THEN pf
            ELSE LET s == CHOOSE x \in S : TRUE
                 IN  upd(update_positions_price(pf, s, prices[s]), S \ {s})
    IN  [eng EXCEPT !.portfolio = upd(@, DOMAIN prices)]

\* the sweep with the target test as a second if instead of an elif
check_stop_loss_targets_two_ifs(eng) ==
    LET snapshot == eng.portfolio.positions
        Stop(acc, position) ==
            IF should_trigger_stop_loss(position)
            THEN (LET r == place_order(acc.eng, position.symbol, "SELL",
                                       position.quantity, position.stop_loss,
                                       "MARKET", None, None)
                  IN  [eng |-> r.eng,
                       auto_orders |-> Append(acc.auto_orders,
                                   [r.result EXCEPT !.trigger = "STOP_LOSS"])])
            ELSE acc
        Target(acc, position) ==
            IF should_trigger_target(position)
            THEN (LET r == place_order(acc.eng, position.symbol, "SELL",
                                       position.quantity, position.target,
                                       "MARKET", None, None)
                  IN  [eng |-> r.eng,
                       auto_orders |-> Append(acc.auto_orders,
                                   [r.result EXCEPT !.trigger = "TARGET"])])
            ELSE acc
        RECURSIVE sweep(_, _)
        sweep(acc, i) ==
            IF i > Len(snapshot) THEN acc
            ELSE sweep(Target(Stop(acc, snapshot[i]), snapshot[i]), i + 1)
    IN  sweep([eng |-> eng, auto_orders |-> <<>>], 1)

\* check_stop_loss_targets: one pass over a snapshot of the open positions;
\* the stop-loss test comes first, the target test is its elif
check_stop_loss_targets(eng) ==
    LET snapshot == eng.portfolio.positions
        RECURSIVE sweep(_, _, _)
        sweep(e, i, auto_orders) ==
            IF i > Len(snapshot) THEN [eng |-> e, auto_orders |-> auto_orders]
            ELSE LET position == snapshot[i]
                 IN  IF should_trigger_stop_loss(position)
                     THEN LET r == place_order(e, position.symbol, "SELL",
                                               position.quantity,
                                               position.stop_loss, "MARKET",
                                               None, None)
                          IN  sweep(r.eng, i + 1,
                                    Append(auto_orders,
                                           [r.result EXCEPT !.trigger = "STOP_LOSS"]))
                     ELSE IF should_trigger_target(position)
                     THEN LET r == place_order(e, position.symbol, "SELL",
                                               position.quantity,
                                               position.target, "MARKET",
                                               None, None)
                          IN  sweep(r.eng, i + 1,
                                    Append(auto_orders,
                                           [r.result EXCEPT !.trigger = "TARGET"]))
                     ELSE sweep(e, i + 1, auto_orders)
    IN  sweep(eng, 1, <<>>)

\* AutomatedTradingEngine.get_results, steps 1-4: the report's final value
\* and the total P&L derived from it
\* get_performance_metrics (engine.py:334-363): the counts of the report
get_performance_metrics(eng) ==
    LET closed_pnls == [i \in DOMAIN eng.portfolio.closed_positions |->
                           Position_realized_pnl(eng.portfolio.closed_positions[i])]
        winning_trades == SelectSeq(closed_pnls, LAMBDA pnl : pnl > 0)
        losing_trades == SelectSeq(closed_pnls, LAMBDA pnl : pnl < 0)
    IN  [total_trades |-> Len(closed_pnls),
         winning_trades |-> Len(winning_trades),
         losing_trades |-> Len(losing_trades),
         total_realized_pnl |-> realized_pnl(eng.portfolio),
         total_brokerage_paid |-> eng.portfolio.total_brokerage_paid]

final_value(pf) ==
    pf.initial_capital + realized_pnl(pf) + unrealized_pnl(pf)
        - pf.total_brokerage_paid

results_total_pnl(pf) == final_value(pf) - pf.initial_capital

(***************************************************************************)
(* One engine driven by one caller at a time (the session's owner)         *)
(***************************************************************************)
\* a request handler of the /order route: its program counter and locals
IdleThread ==
    [pc |-> "idle", order |-> NoOrder, price |-> 0, execution_price |-> 0,
     amount |-> 0, tmp |-> 0, position_id |-> 0, status |-> "None"]

NoReturn == [status |-> "None", message |-> "None", order_id |-> 0,
             trigger |-> "None", auto_orders |-> <<>>]

Returned(result) ==
    [status |-> result.status, message |-> result.message,
     order_id |-> result.order_id, trigger |-> result.trigger,
     auto_orders |-> <<>>]

\* no AutomatedTradingEngine wraps the engine, nothing is being aggregated
\* and the automated-trading routes have no session
NoAutomation ==
    /\ auto = None
    /\ signals = <<>>
    /\ decision = None
    /\ df = <<>>
    /\ active_engines = <<>>
    /\ paper_trading_engines = <<>>
    /\ background_tasks_status = <<>>
    /\ heap = <<>>
    /\ tasks = <<>>
    /\ response = None

Init ==
    /\ \E cfg \in Configs : engine = PaperTradingEngine(cfg)
    /\ call = "__init__"
    /\ ret = NoReturn
    /\ threads = [t \in Threads |-> IdleThread]
    /\ NoAutomation

PlaceOrder ==
    /\ Len(engine.orders) < MaxOrders
    /\ \E symbol \in Symbols, side \in Sides, quantity \in Quantities,
          price \in Prices, order_type \in OrderTypes,
          bracket \in Brackets :
         LET r == place_order(engine, symbol, side, quantity, price,
                              order_type, bracket[1], bracket[2])
         IN  /\ engine' = r.eng
             /\ call' = "place_order"
             /\ ret' = Returned(r.result)
    /\ UNCHANGED <<threads, auto, aggregateVars, sessionVars>>

\* symbol -> price dicts: one symbol, or every symbol
PriceMaps == UNION { [S -> MarkPrices] : S \in {{x} : x \in Symbols} \cup {Symbols} }

UpdatePositionPrices ==
    /\ \E prices \in PriceMaps :
         /\ engine' = update_position_prices(engine, prices)
         /\ call' = "update_position_prices"
    /\ ret' = NoReturn
    /\ UNCHANGED <<threads, auto, aggregateVars, sessionVars>>

CheckStopLossTargets ==
    LET r == check_stop_loss_targets(engine)
    IN  /\ Len(r.eng.orders) <= MaxOrders
        /\ engine' = r.eng
        /\ call' = "check_stop_loss_targets"
        /\ ret' = [NoReturn EXCEPT !.status = "SUCCESS",
                                   !.auto_orders = r.auto_orders]
        /\ UNCHANGED <<threads, auto, aggregateVars, sessionVars>>

\* a caller closes again a position it was handed from closed_positions
CloseClosedPosition ==
    /\ \E i \in DOMAIN engine.portfolio.closed_positions,
          exit_price \in MarkPrices :
         LET r == Position_close(engine.portfolio.closed_positions[i], exit_price)
         IN  /\ engine' = [engine EXCEPT !.portfolio.closed_positions[i] = r.pos]
             /\ call' = "Position.close"
             /\ ret' = [NoReturn EXCEPT !.status =
                            IF r.raised THEN "ERROR" ELSE "SUCCESS",
                          !.message =
                            IF r.raised THEN "ValueError" ELSE "None"]
    /\ UNCHANGED <<threads, auto, aggregateVars, sessionVars>>

Next ==
    \/ PlaceOrder
    \/ UpdatePositionPrices
    \/ CheckStopLossTargets
    \/ CloseClosedPosition

Spec == Init /\ [][Next]_vars

(***************************************************************************)
(* Order objects handed out by the engine: SpecOrder lets a caller invoke  *)
(* the Order methods on the orders of the history next to place_order.     *)
(***************************************************************************)
OrderExecute ==
    /\ \E i \in DOMAIN engine.orders :
         engine' = [engine EXCEPT !.orders[i] =
                        Order_execute(@, @.price, @.quantity)]
    /\ call' = "Order.execute"
    /\ ret' = NoReturn
    /\ UNCHANGED <<threads, auto, aggregateVars, sessionVars>>

OrderReject ==
    /\ \E i \in DOMAIN engine.orders :
         engine' = [engine EXCEPT !.orders[i] = Order_reject(@, "Rejected by caller")]
    /\ call' = "Order.reject"
    /\ ret' = NoReturn
    /\ UNCHANGED <<threads, auto, aggregateVars, sessionVars>>

OrderCancel ==
    /\ \E i \in DOMAIN engine.orders :
         engine' = [engine EXCEPT !.orders[i] = Order_cancel(@)]
    /\ call' = "Order.cancel"
    /\ ret' = NoReturn
    /\ UNCHANGED <<threads, auto, aggregateVars, sessionVars>>

NextOrder ==
    \/ PlaceOrder
    \/ OrderExecute
    \/ OrderReject
    \/ OrderCancel

SpecOrder == Init /\ [][NextOrder]_vars

(***************************************************************************)
(* The /order route (routes/paper_trading.py) is a synchronous handler:    *)
(* concurrent requests of one session run place_order in worker threads on *)
(* the same engine, without a lock.  SpecConc runs the handlers statement  *)
(* by statement; an augmented assignment is a read followed by a write.    *)
(***************************************************************************)
ConcSymbols == {"A", "B"}
ConcQuantities == 1 .. MaxQty
ConcPrices == {P1}

SetThread(t, rec) == [threads EXCEPT ![t] = rec]

Goto(t, label) == threads' = [threads EXCEPT ![t].pc = label]

\* order.reject(reason); return self._rejection_response(reason)
ThreadReject(t, reason) ==
    /\ threads' = [threads EXCEPT ![t].order = Order_reject(@, reason),
                                  ![t].status = "REJECTED",
                                  ![t].pc = "append"]
    /\ UNCHANGED engine

\* an exception leaves place_order: the route answers 400, nothing is appended
ThreadRaise(t) ==
    /\ threads' = [threads EXCEPT ![t].status = "ERROR", ![t].pc = "done"]
    /\ UNCHANGED engine

\* the Position object with this id, in the dict or in closed_positions
ClosePositionObject(pfo, id, exit_price) ==
    [pfo EXCEPT
       !.positions = [i \in DOMAIN @ |->
                        IF @[i].position_id = id
                        THEN Position_close(@[i], exit_price).pos ELSE @[i]],
       !.closed_positions = [i \in DOMAIN @ |->
                        IF @[i].position_id = id
                        THEN Position_close(@[i], exit_price).pos ELSE @[i]]]

PositionObject(pfo, id) ==
    LET all == pfo.positions \o pfo.closed_positions
    IN  all[CHOOSE i \in DOMAIN all : all[i].position_id = id]

\* engine.py 88-111: validation, Order creation, dispatch
T_Start(t) ==
    /\ threads[t].pc = "idle"
    /\ UNCHANGED <<call, ret, auto, aggregateVars, sessionVars>>
    /\ engine.next_id <= MaxConcOrders
    /\ \E symbol \in ConcSymbols, side \in Sides, quantity \in ConcQuantities,
          price \in ConcPrices :
         /\ threads' = SetThread(t,
                [IdleThread EXCEPT
                   !.order = Order(engine.next_id, symbol, side, quantity,
                                   "MARKET", price),
                   !.price = price,
                   !.pc = IF side = "BUY" THEN "buy_has" ELSE "sell_has"])
         /\ engine' = [engine EXCEPT !.next_id = @ + 1]

\* engine.py 128
T_BuyHas(t) ==
    /\ threads[t].pc = "buy_has"
    /\ UNCHANGED <<call, ret, auto, aggregateVars, sessionVars>>
    /\ IF has_position(engine.portfolio, threads[t].order.symbol)
       THEN ThreadReject(t, "Position already exists for this symbol")
       ELSE Goto(t, "buy_max") /\ UNCHANGED engine

\* engine.py 133
T_BuyMax(t) ==
    /\ threads[t].pc = "buy_max"
    /\ UNCHANGED <<call, ret, auto, aggregateVars, sessionVars>>
    /\ IF max_positions_reached(engine)
       THEN ThreadReject(t, "Maximum positions limit reached")
       ELSE Goto(t, "buy_capital") /\ UNCHANGED engine

\* engine.py 138-156
T_BuyCapital(t) ==
    /\ threads[t].pc = "buy_capital"
    /\ UNCHANGED <<call, ret, auto, aggregateVars, sessionVars>>
    /\ LET th == threads[t]
           execution_price == apply_slippage(engine.portfolio, th.price, TRUE)
           required_capital == execution_price * th.order.quantity
           max_allowed == (engine.portfolio.initial_capital
                             * engine.max_position_size) \div 100
           total_cost == required_capital + engine.portfolio.brokerage_per_trade
       IN  IF required_capital > max_allowed
           THEN ThreadReject(t, "Position size exceeds limit")
           ELSE IF engine.portfolio.current_capital < total_cost
           THEN ThreadReject(t, "Insufficient capital")
           ELSE /\ threads' = SetThread(t,
                    [th EXCEPT !.order = Order_execute(@, execution_price,
                                                       th.order.quantity),
                               !.execution_price = execution_price,
                               !.amount = required_capital,
                               !.pc = "buy_deduct_read"])
                /\ UNCHANGED engine

\* engine.py 159: self.portfolio.current_capital -= required_capital
T_BuyDeductRead(t) ==
    /\ threads[t].pc = "buy_deduct_read"
    /\ UNCHANGED <<call, ret, auto, aggregateVars, sessionVars>>
    /\ threads' = [threads EXCEPT
                     ![t].tmp = engine.portfolio.current_capital - threads[t].amount,
                     ![t].pc = "buy_deduct_write"]
    /\ UNCHANGED engine

T_BuyDeductWrite(t) ==
    /\ threads[t].pc = "buy_deduct_write"
    /\ UNCHANGED <<call, ret, auto, aggregateVars, sessionVars>>
    /\ engine' = [engine EXCEPT !.portfolio.current_capital = threads[t].tmp]
    /\ Goto(t, "brokerage_capital_read")

\* portfolio.py 140: self.current_capital -= self.brokerage_per_trade
T_BrokerageCapitalRead(t) ==
    /\ threads[t].pc = "brokerage_capital_read"
    /\ UNCHANGED <<call, ret, auto, aggregateVars, sessionVars>>
    /\ threads' = [threads EXCEPT
                     ![t].tmp = engine.portfolio.current_capital
                                  - engine.portfolio.brokerage_per_trade,
                     ![t].pc = "brokerage_capital_write"]
    /\ UNCHANGED engine

T_BrokerageCapitalWrite(t) ==
    /\ threads[t].pc = "brokerage_capital_write"
    /\ UNCHANGED <<call, ret, auto, aggregateVars, sessionVars>>
    /\ engine' = [engine EXCEPT !.portfolio.current_capital = threads[t].tmp]
    /\ Goto(t, "brokerage_total_read")

\* portfolio.py 141: self.total_brokerage_paid += self.brokerage_per_trade
T_BrokerageTotalRead(t) ==
    /\ threads[t].pc = "brokerage_total_read"
    /\ UNCHANGED <<call, ret, auto, aggregateVars, sessionVars>>
    /\ threads' = [threads EXCEPT
                     ![t].tmp = engine.portfolio.total_brokerage_paid
                                  + engine.portfolio.brokerage_per_trade,
                     ![t].pc = "brokerage_total_write"]
    /\ UNCHANGED engine

T_BrokerageTotalWrite(t) ==
    /\ threads[t].pc = "brokerage_total_write"
    /\ UNCHANGED <<call, ret, auto, aggregateVars, sessionVars>>
    /\ engine' = [engine EXCEPT !.portfolio.total_brokerage_paid = threads[t].tmp]
    /\ Goto(t, IF threads[t].order.side = "BUY" THEN "buy_add" ELSE "sell_remove")

\* engine.py 165-174: Position(...) and portfolio.add_position
T_BuyAdd(t) ==
    /\ threads[t].pc = "buy_add"
    /\ UNCHANGED <<call, ret, auto, aggregateVars, sessionVars>>
    /\ LET o == threads[t].order
           position == Position(o.order_id, o.symbol, "LONG", o.quantity,
                                threads[t].execution_price, None, None)
           added == add_position(engine.portfolio, position)
       IN  IF added.raised THEN ThreadRaise(t)
           ELSE /\ engine' = [engine EXCEPT !.portfolio = added.pf]
                /\ Goto(t, "buy_trade")

\* engine.py 177-188
T_BuyTrade(t) ==
    /\ threads[t].pc = "buy_trade"
    /\ UNCHANGED <<call, ret, auto, aggregateVars, sessionVars>>
    /\ LET o == threads[t].order
       IN  engine' = [engine EXCEPT !.trades = Append(@,
                [order_id |-> o.order_id, symbol |-> o.symbol, side |-> "BUY",
                 quantity |-> o.quantity, price |-> threads[t].execution_price,
                 value |-> threads[t].amount,
                 brokerage |-> engine.portfolio.brokerage_per_trade,
                 realized_pnl |-> None])]
    /\ threads' = [threads EXCEPT ![t].status = "SUCCESS", ![t].pc = "append"]

\* engine.py 207
T_SellHas(t) ==
    /\ threads[t].pc = "sell_has"
    /\ UNCHANGED <<call, ret, auto, aggregateVars, sessionVars>>
    /\ IF ~has_position(engine.portfolio, threads[t].order.symbol)
       THEN ThreadReject(t, "No open position to sell")
       ELSE Goto(t, "sell_get") /\ UNCHANGED engine

\* engine.py 211: get_position raises when the symbol is gone
T_SellGet(t) ==
    /\ threads[t].pc = "sell_get"
    /\ UNCHANGED <<call, ret, auto, aggregateVars, sessionVars>>
    /\ IF ~has_position(engine.portfolio, threads[t].order.symbol)
       THEN ThreadRaise(t)
       ELSE /\ threads' = [threads EXCEPT
                  ![t].position_id =
                      get_position(engine.portfolio,
                                   threads[t].order.symbol).position_id,
                  ![t].pc = "sell_quantity"]
            /\ UNCHANGED engine

\* engine.py 214-222
T_SellQuantity(t) ==
    /\ threads[t].pc = "sell_quantity"
    /\ UNCHANGED <<call, ret, auto, aggregateVars, sessionVars>>
    /\ LET th == threads[t]
           position == PositionObject(engine.portfolio, th.position_id)
           execution_price == apply_slippage(engine.portfolio, th.price, FALSE)
       IN  IF exceeds_held_quantity(th.order, position)
           THEN ThreadReject(t, "Insufficient quantity")
           ELSE /\ threads' = SetThread(t,
                    [th EXCEPT !.order = Order_execute(@, execution_price,
                                                       th.order.quantity),
                               !.execution_price = execution_price,
                               !.amount = execution_price * th.order.quantity,
                               !.pc = "sell_close"])
                /\ UNCHANGED engine

\* engine.py 225: position.close raises when another handler closed it
T_SellClose(t) ==
    /\ threads[t].pc = "sell_close"
    /\ UNCHANGED <<call, ret, auto, aggregateVars, sessionVars>>
    /\ LET th == threads[t]
           position == PositionObject(engine.portfolio, th.position_id)
       IN  IF Position_close(position, th.execution_price).raised
           THEN ThreadRaise(t)
           ELSE /\ engine' = [engine EXCEPT !.portfolio =
                       ClosePositionObject(@, th.position_id, th.execution_price)]
                /\ Goto(t, "sell_proceeds_read")

\* engine.py 229: self.portfolio.current_capital += proceeds
T_SellProceedsRead(t) ==
    /\ threads[t].pc = "sell_proceeds_read"
    /\ UNCHANGED <<call, ret, auto, aggregateVars, sessionVars>>
    /\ threads' = [threads EXCEPT
                     ![t].tmp = engine.portfolio.current_capital + threads[t].amount,
                     ![t].pc = "sell_proceeds_write"]
    /\ UNCHANGED engine

T_SellProceedsWrite(t) ==
    /\ threads[t].pc = "sell_proceeds_write"
    /\ UNCHANGED <<call, ret, auto, aggregateVars, sessionVars>>
    /\ engine' = [engine EXCEPT !.portfolio.current_capital = threads[t].tmp]
    /\ Goto(t, "brokerage_capital_read")

\* engine.py 235: portfolio.remove_position
T_SellRemove(t) ==
    /\ threads[t].pc = "sell_remove"
    /\ UNCHANGED <<call, ret, auto, aggregateVars, sessionVars>>
    /\ LET removed == remove_position(engine.portfolio, threads[t].order.symbol)
       IN  IF removed.raised THEN ThreadRaise(t)
           ELSE /\ engine' = [engine EXCEPT !.portfolio = removed.pf]
                /\ Goto(t, "sell_trade")

\* engine.py 238-250
T_SellTrade(t) ==
    /\ threads[t].pc = "sell_trade"
    /\ UNCHANGED <<call, ret, auto, aggregateVars, sessionVars>>
    /\ LET o == threads[t].order
       IN  engine' = [engine EXCEPT !.trades = Append(@,
                [order_id |-> o.order_id, symbol |-> o.symbol, side |-> "SELL",
                 quantity |-> o.quantity, price |-> threads[t].execution_price,
                 value |-> threads[t].amount,
                 brokerage |-> engine.portfolio.brokerage_per_trade,
                 realized_pnl |-> Position_realized_pnl(
                     PositionObject(engine.portfolio, threads[t].position_id))])]
    /\ threads' = [threads EXCEPT ![t].status = "SUCCESS", ![t].pc = "append"]

\* engine.py 114: self.orders.append(order)
T_Append(t) ==
    /\ threads[t].pc = "append"
    /\ UNCHANGED <<call, ret, auto, aggregateVars, sessionVars>>
    /\ engine' = [engine EXCEPT !.orders = Append(@, threads[t].order)]
    /\ Goto(t, "done")

\* the response is sent and the worker thread is free again
T_Return(t) ==
    /\ threads[t].pc = "done"
    /\ UNCHANGED <<call, ret, auto, aggregateVars, sessionVars>>
    /\ engine.next_id <= MaxConcOrders
    /\ threads' = SetThread(t, IdleThread)
    /\ UNCHANGED engine

NextConc ==
    \/ \E t \in Threads : T_Start(t)
    \/ \E t \in Threads : T_BuyHas(t)
    \/ \E t \in Threads : T_BuyMax(t)
    \/ \E t \in Threads : T_BuyCapital(t)
    \/ \E t \in Threads : T_BuyDeductRead(t)
    \/ \E t \in Threads : T_BuyDeductWrite(t)
    \/ \E t \in Threads : T_BrokerageCapitalRead(t)
    \/ \E t \in Threads : T_BrokerageCapitalWrite(t)
    \/ \E t \in Threads : T_BrokerageTotalRead(t)
    \/ \E t \in Threads : T_BrokerageTotalWrite(t)
    \/ \E t \in Threads : T_BuyAdd(t)
    \/ \E t \in Threads : T_BuyTrade(t)
    \/ \E t \in Threads : T_SellHas(t)
    \/ \E t \in Threads : T_SellGet(t)
    \/ \E t \in Threads : T_SellQuantity(t)
    \/ \E t \in Threads : T_SellClose(t)
    \/ \E t \in Threads : T_SellProceedsRead(t)
    \/ \E t \in Threads : T_SellProceedsWrite(t)
    \/ \E t \in Threads : T_SellRemove(t)
    \/ \E t \in Threads : T_SellTrade(t)
    \/ \E t \in Threads : T_Append(t)
    \/ \E t \in Threads : T_Return(t)

SpecConc == Init /\ [][NextConc]_vars

(***************************************************************************)
(* AutomatedTradingEngine.aggregate_signals (automated_trading.py).        *)
(* A confidence is a float between 0 and 1: it is kept as an exact         *)
(* fraction of hundredths, so 0.6 is Frac(60, 1) and the 0.3 floor is 30.  *)
(***************************************************************************)
MaxSignals == 4

ConfidenceScale == 100          \* model units per 1.0 of confidence
MinConfidence == 30             \* the 0.3 floor of a decision

Frac(n, d) == [num |-> n, den |-> d]

FracAdd(a, b) == Frac(a.num * b.den + b.num * a.den, a.den * b.den)

FracMul(a, b) == Frac(a.num * b.num, a.den * b.den)

FracDiv(a, n) == Frac(a.num, a.den * n)

FracGT(a, b) == a.num * b.den > b.num * a.den

FracEq(a, b) == a.num * b.den = b.num * a.den

\* timestamp is the time of the last candle the signal was computed from,
\* 0 for a signal that was handed in without one
StrategySignal(strategy_name, symbol, signal, price, confidence) ==
    [strategy_name |-> strategy_name, symbol |-> symbol, signal |-> signal,
     price |-> price, confidence |-> confidence, timestamp |-> 0,
     metadata |-> [buy_votes |-> 0, sell_votes |-> 0, strategies |-> 0]]

\* Python's None where a StrategySignal is expected
NoSignal == StrategySignal(<<>>, "None", "None", 0, Frac(0, 1))

\* the strategies of a configuration, in the order run_strategies runs them
valid_strategies ==
    <<"RSI", "MACD", "SUPERTREND", "BOLLINGER", "ADX", "ATR", "RENKO">>

\* the test with >= for >
has_half(votes, other_votes) == votes >= other_votes

\* automated_trading.py:516 and 535, the majority test
has_majority(votes, other_votes) == votes > other_votes

\* the share taken of every signal handed in, HOLD included
share_of_signals(votes, total_votes, strategies) == Frac(votes, strategies)

\* automated_trading.py:517 and 536, (buy_votes / total_votes)
vote_share(votes, total_votes, strategies) == Frac(votes, total_votes)

aggregate_signals(sigs) ==
    LET Zero == [buy_votes |-> 0, sell_votes |-> 0,
                 buy_confidence |-> Frac(0, 1), sell_confidence |-> Frac(0, 1),
                 buy_strategies |-> <<>>, sell_strategies |-> <<>>]
        RECURSIVE tally(_, _)
        tally(i, t) ==
            IF i > Len(sigs) THEN t
            ELSE LET signal == sigs[i]
                 IN  IF signal.signal = "BUY"
                     THEN tally(i + 1,
                            [t EXCEPT !.buy_votes = @ + 1,
                               !.buy_confidence = FracAdd(@, signal.confidence),
                               !.buy_strategies = Append(@, signal.strategy_name)])
                     ELSE IF signal.signal = "SELL"
                     THEN tally(i + 1,
                            [t EXCEPT !.sell_votes = @ + 1,
                               !.sell_confidence = FracAdd(@, signal.confidence),
                               !.sell_strategies = Append(@, signal.strategy_name)])
                     ELSE tally(i + 1, t)
        t == tally(1, Zero)
        total_votes == t.buy_votes + t.sell_votes
        avg_buy_confidence ==
            IF t.buy_votes > 0 THEN FracDiv(t.buy_confidence, t.buy_votes)
            ELSE Frac(0, 1)
        avg_sell_confidence ==
            IF t.sell_votes > 0 THEN FracDiv(t.sell_confidence, t.sell_votes)
            ELSE Frac(0, 1)
        metadata == [buy_votes |-> t.buy_votes, sell_votes |-> t.sell_votes,
                     strategies |-> Len(sigs)]
    IN  IF sigs = <<>> THEN NoSignal
        ELSE IF total_votes = 0 THEN NoSignal
        ELSE IF /\ has_majority(t.buy_votes, t.sell_votes)
                /\ FracGT(avg_buy_confidence, Frac(MinConfidence, 1))
        THEN [StrategySignal(t.buy_strategies, sigs[1].symbol, "BUY",
                             sigs[1].price,
                             FracMul(avg_buy_confidence,
                                     vote_share(t.buy_votes, total_votes,
                                                Len(sigs))))
                EXCEPT !.metadata = metadata, !.timestamp = sigs[1].timestamp]
        ELSE IF /\ has_majority(t.sell_votes, t.buy_votes)
                /\ FracGT(avg_sell_confidence, Frac(MinConfidence, 1))
        THEN [StrategySignal(t.sell_strategies, sigs[1].symbol, "SELL",
                             sigs[1].price,
                             FracMul(avg_sell_confidence,
                                     vote_share(t.sell_votes, total_votes,
                                                Len(sigs))))
                EXCEPT !.metadata = metadata, !.timestamp = sigs[1].timestamp]
        ELSE NoSignal

(***************************************************************************)
(* SpecAggregate: aggregate_signals applied to the votes of one symbol at  *)
(* one bar.  The i-th vote comes from the i-th strategy.                   *)
(***************************************************************************)
Confidences == {30, 50, 60, 70, 90}

Votes ==
    [signal : {"BUY", "SELL"}, confidence : Confidences]
        \cup [signal : {"HOLD"}, confidence : {50}]

SignalLists ==
    { [i \in 1 .. Len(v) |->
          StrategySignal(<<valid_strategies[i]>>, "A", v[i].signal, P1,
                         Frac(v[i].confidence, 1))] :
        v \in UNION { [1 .. n -> Votes] : n \in 0 .. MaxSignals } }

\* aggregate_signals has not been called on the votes yet
Pending == [NoSignal EXCEPT !.signal = "pending"]

InitAggregate ==
    /\ signals \in SignalLists
    /\ decision = Pending
    /\ df = <<>>
    /\ engine = None
    /\ call = "None"
    /\ ret = NoReturn
    /\ threads = <<>>
    /\ auto = None
    /\ active_engines = <<>>
    /\ paper_trading_engines = <<>>
    /\ background_tasks_status = <<>>
    /\ heap = <<>>
    /\ tasks = <<>>
    /\ response = None

AggregateSignals ==
    /\ decision = Pending
    /\ decision' = aggregate_signals(signals)
    /\ UNCHANGED <<signals, df, engine, call, ret, threads, auto, sessionVars>>

NextAggregate == AggregateSignals

SpecAggregate == InitAggregate /\ [][NextAggregate]_vars

(***************************************************************************)
(* AutomatedTradingEngine (automated_trading.py): the object wrapped       *)
(* around a PaperTradingEngine.  position_metadata is the dict symbol ->   *)
(* metadata and daily_pnl the dict date -> P&L, both kept as the sequence  *)
(* of their entries in insertion order.                                    *)
(***************************************************************************)
AutoTradingConfig(symbols, start_date, end_date, strategies, mode) ==
    [symbols |-> symbols, start_date |-> start_date, end_date |-> end_date,
     stop_loss_percent |-> 2, profit_target_percent |-> 5,
     initial_capital |-> 10000 * MoneyScale, max_positions |-> 2,
     position_size_percent |-> 50, strategies |-> strategies, mode |-> mode]

AutomatedTradingEngine(config) ==
    [config |-> config,
     engine |-> PaperTradingEngine(
                    [initial_capital |-> config.initial_capital,
                     max_positions |-> config.max_positions,
                     max_position_size |-> config.position_size_percent,
                     brokerage_per_trade |-> 20 * MoneyScale,
                     slippage_percent |-> 10, allow_short |-> FALSE]),
     all_signals |-> <<>>, executed_trades |-> <<>>, daily_pnl |-> <<>>,
     position_metadata |-> <<>>]

\* execute_signal returns True when an order was executed; an exception
\* inside it (a division by a zero price) is caught and gives False
execute_signal(ate, signal) ==
    LET pf == ate.engine.portfolio
        symbol == signal.symbol
        position == get_position(pf, symbol)
        quantity == (pf.current_capital * ate.config.position_size_percent)
                        \div (100 * signal.price)
        stop_loss_price ==
            IF signal.signal = "BUY"
            THEN (signal.price * (100 - ate.config.stop_loss_percent)) \div 100
            ELSE (signal.price * (100 + ate.config.stop_loss_percent)) \div 100
        target_price ==
            IF signal.signal = "BUY"
            THEN (signal.price * (100 + ate.config.profit_target_percent)) \div 100
            ELSE (signal.price * (100 - ate.config.profit_target_percent)) \div 100
        metadata == [symbol |-> symbol, entry_price |-> signal.price,
                     stop_loss |-> stop_loss_price, target |-> target_price,
                     entry_time |-> signal.timestamp,
                     strategy |-> signal.strategy_name]
        trade == [symbol |-> symbol, side |-> signal.signal,
                  quantity |-> quantity, price |-> signal.price,
                  timestamp |-> signal.timestamp,
                  strategy |-> signal.strategy_name,
                  stop_loss |-> stop_loss_price, target |-> target_price]
        \* lines 582-591, result being the outcome of the closing order
        Closed(result) ==
            IF result.result.status = "SUCCESS"
            THEN [ate |-> [ate EXCEPT !.engine = result.eng,
                             !.position_metadata =
                                 IF KeyIndex(@, symbol) # 0
                                 THEN DictPop(@, symbol) ELSE @],
                  success |-> TRUE]
            ELSE [ate |-> [ate EXCEPT !.engine = result.eng],
                  success |-> FALSE]
        \* the position object of the symbol with the attributes of lines 634-637
        Tagged(eng, k) ==
            IF k = 0 THEN eng
            ELSE [eng EXCEPT !.portfolio.positions[k] =
                     [@ EXCEPT !.strategy = signal.strategy_name,
                               !.stop_loss = stop_loss_price,
                               !.target = target_price]]
        \* lines 619-650, result being the outcome of the opening order
        Opened(result) ==
            IF result.result.status = "SUCCESS"
            THEN [ate |-> [ate EXCEPT
                             !.engine =
                                 Tagged(result.eng,
                                        KeyIndex(result.eng.portfolio.positions,
                                                 symbol)),
                             !.position_metadata = DictSet(@, symbol, metadata),
                             !.executed_trades = Append(@, trade)],
                  success |-> TRUE]
            ELSE [ate |-> [ate EXCEPT !.engine = result.eng], success |-> FALSE]
    IN  IF has_position(pf, symbol)
        THEN IF signal.signal = "SELL" /\ position.side = "LONG"
             THEN Closed(place_order(ate.engine, symbol, "SELL",
                                     position.quantity, signal.price, "MARKET",
                                     None, None))
             ELSE [ate |-> ate, success |-> FALSE]
        ELSE IF signal.price = 0 THEN [ate |-> ate, success |-> FALSE]
        ELSE IF quantity <= 0 THEN [ate |-> ate, success |-> FALSE]
        ELSE Opened(place_order(ate.engine, symbol, signal.signal, quantity,
                                signal.price, "MARKET", stop_loss_price,
                                target_price))

\* AutomatedTradingEngine.check_stop_loss_targets(current_prices): the first
\* loop collects (symbol, position, current_price, reason), the second one
\* closes them; closed lists what the second loop did
AutomatedTradingEngine_check_stop_loss_targets(ate, current_prices) ==
    LET positions == ate.engine.portfolio.positions
        Reason(position, current_price, metadata) ==
            IF position.side = "LONG"
            THEN IF current_price <= metadata.stop_loss THEN "STOP_LOSS"
                 ELSE IF current_price >= metadata.target THEN "TARGET"
                 ELSE "None"
            ELSE IF current_price >= metadata.stop_loss THEN "STOP_LOSS"
                 ELSE IF current_price <= metadata.target THEN "TARGET"
                 ELSE "None"
        Collected(positions_to_close, position, current_price, reason) ==
            IF reason = "None" THEN positions_to_close
            ELSE Append(positions_to_close,
                        [symbol |-> position.symbol, position |-> position,
                         price |-> current_price, reason |-> reason])
        RECURSIVE collect(_, _)
        collect(i, positions_to_close) ==
            IF i > Len(positions) THEN positions_to_close
            ELSE LET position == positions[i]
                     symbol == position.symbol
                     m == KeyIndex(ate.position_metadata, symbol)
                     current_price == IF symbol \in DOMAIN current_prices
                                      THEN current_prices[symbol] ELSE None
                 IN  IF m = 0 THEN collect(i + 1, positions_to_close)
                     ELSE IF current_price = None \/ current_price = 0
                     THEN collect(i + 1, positions_to_close)
                     ELSE collect(i + 1,
                            Collected(positions_to_close, position, current_price,
                                      Reason(position, current_price,
                                             ate.position_metadata[m])))
        \* the closed position of lines 717-721 with its exit reason
        Labelled(eng, n, c, metadata) ==
            IF n > 0 /\ eng.portfolio.closed_positions[n].symbol = c.symbol
            THEN [eng EXCEPT !.portfolio.closed_positions[n] =
                     [@ EXCEPT !.exit_reason = c.reason,
                               !.strategy = metadata.strategy]]
            ELSE eng
        \* lines 710-723, result being the outcome of the closing order
        Closed(acc, c, result, m) ==
            [ate |->
               IF result.result.status = "SUCCESS" /\ m # 0
               THEN [acc.ate EXCEPT
                       !.engine = Labelled(result.eng,
                                           Len(result.eng.portfolio.closed_positions),
                                           c, acc.ate.position_metadata[m]),
                       !.position_metadata = DictPop(@, c.symbol)]
               ELSE [acc.ate EXCEPT !.engine = result.eng],
             closed |-> Append(acc.closed,
                               [result.result EXCEPT !.trigger = c.reason])]
        RECURSIVE close(_, _)
        close(acc, todo) ==
            IF todo = <<>> THEN acc
            ELSE close(Closed(acc, Head(todo),
                              place_order(acc.ate.engine, Head(todo).symbol,
                                  IF Head(todo).position.side = "LONG"
                                  THEN "SELL" ELSE "BUY",
                                  Head(todo).position.quantity, Head(todo).price,
                                  "MARKET", None, None),
                              KeyIndex(acc.ate.position_metadata,
                                       Head(todo).symbol)),
                       Tail(todo))
    IN  close([ate |-> ate, closed |-> <<>>], collect(1, <<>>))

\* the exit timestamp taken from the clock whatever the position holds
exit_timestamp_now(pos, now) == now

\* automated_trading.py:1143, the exit timestamp of a trade of the report:
\* close() sets exit_time (written 0 here) together with is_open = False
exit_timestamp(pos, now) == IF ~pos.is_open THEN 0 ELSE now

\* get_results: the report of the session; now is the value datetime.now()
\* would give for a closed position without an exit time.  Money is already
\* in hundredths, so round(x, 2) keeps it.
\* step 10 of get_results: a point for each day of daily_pnl, kept as the
\* function from the day to its point
equity_curve(ate) ==
    [date_key \in DOMAIN ate.daily_pnl |->
        [date |-> date_key,
         portfolio_value |-> ate.engine.portfolio.initial_capital
                               + ate.daily_pnl[date_key],
         pnl |-> ate.daily_pnl[date_key]]]

get_results(ate, now) ==
    LET portfolio == ate.engine.portfolio
        closed_positions == portfolio.closed_positions
    IN  [config |-> ate.config,
         portfolio |->
           [initial_capital |-> portfolio.initial_capital,
            realized_pnl |-> realized_pnl(portfolio),
            unrealized_pnl |-> unrealized_pnl(portfolio),
            total_charges |-> portfolio.total_brokerage_paid,
            total_pnl |-> results_total_pnl(portfolio),
            final_value |-> final_value(portfolio),
            current_capital |-> portfolio.current_capital,
            invested_capital |-> invested_capital(portfolio),
            open_positions_count |-> Len(portfolio.positions),
            closed_positions_count |-> Len(closed_positions)],
         performance |->
           [total_trades |-> Len(closed_positions),
            winning_trades |->
                Cardinality({i \in DOMAIN closed_positions :
                               Position_realized_pnl(closed_positions[i]) > 0}),
            losing_trades |->
                Cardinality({i \in DOMAIN closed_positions :
                               Position_realized_pnl(closed_positions[i]) < 0})],
         total_signals_generated |-> Len(ate.all_signals),
         executed_trades |->
           [i \in DOMAIN closed_positions |->
              LET pos == closed_positions[i]
              IN  [symbol |-> pos.symbol, entry_price |-> pos.entry_price,
                   quantity |-> pos.quantity,
                   exit_price |-> IF pos.exit_price # None /\ pos.exit_price # 0
                                  THEN pos.exit_price ELSE pos.current_price,
                   exit_timestamp |-> exit_timestamp(pos, now),
                   exit_reason |-> IF pos.exit_reason = "None" THEN "AUTO_EXIT"
                                   ELSE pos.exit_reason,
                   strategy |-> pos.strategy,
                   gross_pnl |-> Position_realized_pnl(pos)
                                    + portfolio.brokerage_per_trade,
                   net_pnl |-> Position_realized_pnl(pos)]],
         daily_pnl |-> ate.daily_pnl,
         equity_curve |-> equity_curve(ate)]

(***************************************************************************)
(* SpecAuto: one AutomatedTradingEngine object and the calls made on it    *)
(* and on the PaperTradingEngine it exposes as .engine                     *)
(***************************************************************************)
MaxAutoOrders == 2

Q80 == 80 * MoneyScale
Q90 == 90 * MoneyScale
AutoPrices == {Q80, P1}         \* the closes of a bar
SignalPrices == {Q90}           \* the price of an aggregated signal
AutoPriceMaps ==
    UNION { [S -> AutoPrices] : S \in {{x} : x \in Symbols} \cup {Symbols} }
\* the (stop_loss, target) pair of an order placed on .engine directly
EngineBrackets == {<<P1, Q80>>}
\* the values datetime.now() can take in a report
Now == {1, 2}

InitAuto ==
    /\ auto = AutomatedTradingEngine(
                  AutoTradingConfig(<<"A", "B">>, 1, 2, valid_strategies,
                                    "HISTORICAL"))
    /\ call = "__init__"
    /\ ret = NoReturn
    /\ response = None
    /\ engine = None
    /\ threads = <<>>
    /\ signals = <<>>
    /\ decision = None
    /\ df = <<>>
    /\ active_engines = <<>>
    /\ paper_trading_engines = <<>>
    /\ background_tasks_status = <<>>
    /\ heap = <<>>
    /\ tasks = <<>>

AutoUnchanged ==
    UNCHANGED <<engine, threads, aggregateVars, active_engines,
                background_tasks_status, heap, tasks, paper_trading_engines>>

\* execute_signal called with an aggregated signal at one of prices
ExecuteSignalAt(prices) ==
    /\ Len(auto.engine.orders) < MaxAutoOrders
    /\ \E symbol \in Symbols, side \in Sides, price \in prices :
       \E r \in {execute_signal(auto,
                     StrategySignal(<<"RSI">>, symbol, side, price, Frac(60, 1)))} :
             /\ auto' = r.ate
             /\ call' = "execute_signal"
             /\ ret' = [NoReturn EXCEPT !.status =
                           IF r.success THEN "True" ELSE "False"]
    /\ response' = None
    /\ AutoUnchanged

ExecuteSignal == ExecuteSignalAt(SignalPrices)

AutoCheckStopLossTargets ==
    /\ \E current_prices \in AutoPriceMaps :
       \E r \in {AutomatedTradingEngine_check_stop_loss_targets(auto,
                                                                current_prices)} :
             /\ auto' = r.ate
             /\ call' = "AutomatedTradingEngine.check_stop_loss_targets"
             /\ ret' = [NoReturn EXCEPT !.auto_orders = r.closed]
    /\ response' = None
    /\ AutoUnchanged

AutoUpdatePrices ==
    /\ \E prices \in AutoPriceMaps :
         auto' = [auto EXCEPT !.engine = update_position_prices(@, prices)]
    /\ call' = "engine.update_prices"
    /\ ret' = NoReturn
    /\ response' = None
    /\ AutoUnchanged

EnginePlaceOrder ==
    /\ Len(auto.engine.orders) < MaxAutoOrders
    /\ \E symbol \in Symbols, side \in {"BUY"}, price \in SignalPrices,
          bracket \in EngineBrackets :
       \E r \in {place_order(auto.engine, symbol, side, 1, price, "MARKET",
                              bracket[1], bracket[2])} :
             /\ auto' = [auto EXCEPT !.engine = r.eng]
             /\ call' = "engine.place_order"
             /\ ret' = Returned(r.result)
    /\ response' = None
    /\ AutoUnchanged

EngineCheckStopLossTargets ==
    \E r \in {check_stop_loss_targets(auto.engine)} :
        /\ auto' = [auto EXCEPT !.engine = r.eng]
        /\ call' = "engine.check_stop_loss_targets"
        /\ ret' = [NoReturn EXCEPT !.auto_orders = r.auto_orders]
        /\ response' = None
        /\ AutoUnchanged

GetResults ==
    /\ \E now \in Now : response' = get_results(auto, now)
    /\ call' = "get_results"
    /\ ret' = NoReturn
    /\ UNCHANGED auto
    /\ AutoUnchanged

NextAuto ==
    \/ ExecuteSignal
    \/ AutoCheckStopLossTargets
    \/ AutoUpdatePrices
    \/ EnginePlaceOrder
    \/ EngineCheckStopLossTargets
    \/ GetResults

SpecAuto == InitAuto /\ [][NextAuto]_vars

(***************************************************************************)
(* SpecEngines: either engine with inputs beyond those of Spec and         *)
(* SpecAuto.  A behaviour exercises one object: a PaperTradingEngine       *)
(* created by /initialize with allow_short set and a brokerage above the   *)
(* price of a share, or an AutomatedTradingEngine given signals at a       *)
(* price that divides its position budget.                                 *)
(***************************************************************************)
WideConfigs ==
    { [initial_capital |-> 400 * MoneyScale, max_positions |-> 1,
       max_position_size |-> 60, brokerage_per_trade |-> 160 * MoneyScale,
       slippage_percent |-> 10, allow_short |-> TRUE] }

SizingPrices == {Q90, P1}

InitEngines ==
    \/ /\ \E cfg \in WideConfigs : engine = PaperTradingEngine(cfg)
       /\ call = "__init__"
       /\ ret = NoReturn
       /\ threads = [t \in Threads |-> IdleThread]
       /\ NoAutomation
    \/ InitAuto

\* the behaviour exercises the PaperTradingEngine: InitAuto leaves no
\* request handler
OnPaperEngine == threads # <<>>

NextEngines ==
    \/ OnPaperEngine /\ PlaceOrder
    \/ OnPaperEngine /\ UpdatePositionPrices
    \/ OnPaperEngine /\ CheckStopLossTargets
    \/ ~OnPaperEngine /\ ExecuteSignalAt(SizingPrices)
    \/ ~OnPaperEngine /\ AutoCheckStopLossTargets
    \/ ~OnPaperEngine /\ AutoUpdatePrices

SpecEngines == InitEngines /\ [][NextEngines]_vars

(***************************************************************************)
(* SpecSession: the automated-trading routes (routes/automated_trading.py) *)
(* and the background tasks they schedule.  active_engines maps a session  *)
(* id to its engine object and background_tasks_status to its status dict; *)
(* heap holds the engine objects, which a task keeps a reference to even   *)
(* when its session id is deleted or started again; tasks are the          *)
(* coroutines handed to BackgroundTasks.  A route handler has no await and *)
(* runs in one step; a task runs from one await to the next.               *)
(***************************************************************************)
MaxStarts == 1
MaxLiveIterations == 1

SessionIds == {"s1"}

\* dict[key] = value and del dict[key]
SetItem(d, key, value) ==
    [k \in DOMAIN d \cup {key} |-> IF k = key THEN value ELSE d[k]]

DelItem(d, key) ==
    IF DOMAIN d \subseteq {key} THEN <<>>
    ELSE [k \in DOMAIN d \ {key} |-> d[k]]

\* str.upper() on the strings a request carries
upper(s) ==
    CASE s = "historical" -> "HISTORICAL"
      [] s = "live" -> "LIVE"
      [] s = "paper" -> "PAPER"
      [] s = "rsi" -> "RSI"
      [] s = "macd" -> "MACD"
      [] s = "Bollinger" -> "BOLLINGER"
      [] s = "foo" -> "FOO"
      [] OTHER -> s

\* datetime.strptime(s, "%Y-%m-%d").date() as a day number, 0 for the
\* ValueError of a string that is not in that format
strptime(s) ==
    CASE s = "2024-01-02" -> 2
      [] s = "2024-03-01" -> 61
      [] OTHER -> 0

\* date.today()
Today == 400

\* the requests: a valid one for each mode and one for each way of being
\* invalid; "" is a date that was not given (None or empty), and the other
\* fields keep one value each
Requests ==
    LET given == <<"2024-01-02", "2024-03-01">>
        known == <<"macd", "Bollinger">>
        Request(modes, dates, strategies) ==
            [session_id : SessionIds, symbols : {<<"A", "B">>}, mode : modes,
             dates : dates, strategies : strategies]
    IN  Request({"historical"}, {given}, {known})
        \cup Request({"LIVE"}, {<<"", "">>}, {known})
        \cup Request({"paper"}, {given}, {known})
        \cup Request({"historical"},
                     {<<"", "2024-03-01">>, <<"2024-03-01", "2024-01-02">>,
                      <<"01/02/2024", "2024-03-01">>},
                     {known})
        \cup Request({"historical"}, {given}, {<<"macd", "foo">>})

\* start_automated_trading up to the creation of the configuration (lines
\* 81-135 with the handlers of 169-172): the status code, and the
\* configuration when nothing was raised
start_automated_trading(request) ==
    LET mode == upper(request.mode)
        start_date == strptime(request.dates[1])
        end_date == strptime(request.dates[2])
        invalid == SelectSeq(request.strategies,
                             LAMBDA s : \A i \in DOMAIN valid_strategies :
                                            upper(s) # valid_strategies[i])
        strategies == IF request.strategies # <<>>
                      THEN [i \in DOMAIN request.strategies |->
                                upper(request.strategies[i])]
                      ELSE valid_strategies
        \* what the try block raises (the exception and its message), "None"
        \* when it runs to its return
        raised ==
            IF mode \notin {"HISTORICAL", "LIVE"}
            THEN <<"HTTPException", "Invalid mode">>
            ELSE IF mode = "HISTORICAL"
                    /\ (request.dates[1] = "" \/ request.dates[2] = "")
            THEN <<"HTTPException", "start_date and end_date are required">>
            ELSE IF mode = "HISTORICAL" /\ (start_date = 0 \/ end_date = 0)
            THEN <<"ValueError", "time data does not match format">>
            ELSE IF mode = "HISTORICAL" /\ start_date > end_date
            THEN <<"HTTPException", "start_date must be before end_date">>
            ELSE IF request.strategies # <<>> /\ invalid # <<>>
            THEN <<"HTTPException", "Invalid strategies">>
            ELSE <<"None", "None">>
    \* the handlers of lines 169-172: a ValueError is answered 400 and any
    \* other exception, the HTTPException of the try block too, 500
    IN  [status_code |-> CASE raised[1] = "None" -> 200
                           [] raised[1] = "ValueError" -> 400
                           [] OTHER -> 500,
         detail |-> raised[2],
         config |-> AutoTradingConfig(
                        request.symbols,
                        IF mode = "HISTORICAL" THEN start_date ELSE Today,
                        IF mode = "HISTORICAL" THEN end_date ELSE Today,
                        strategies, mode)]

\* automated_trading.py:887 and 917
YieldEvery == 10
MinCandles == 30

\* a candle with the readings the indicators give on the frame that ends
\* with it (calculate_rsi, calculate_macd, ... at its row); these are the
\* readings of a quiet market, on which no strategy votes.  faulty names
\* the strategies whose indicator raises on that frame.
Candle(timestamp, close) ==
    [timestamp |-> timestamp, close |-> close, rsi |-> 50, macd |-> 0,
     signal |-> 0, direction |-> 1, lower_band |-> close - 5 * MoneyScale,
     upper_band |-> close + 5 * MoneyScale, adx |-> 20, sma_20 |-> close,
     atr |-> 100, bricks |-> 3, renko_signal |-> "NEUTRAL",
     consecutive_up |-> 0, consecutive_down |-> 0, faulty |-> {}]

\* an exception in flight where a StrategySignal is expected
Raised == [NoSignal EXCEPT !.signal = "raised"]

\* the try block of run_rsi_strategy ... run_renko_strategy (lines 116-477)
\* on the frame of the candles up to now: the signal it returns, NoSignal
\* when it returns None or falls through, Raised when the indicator raises
generate(strategy_name, symbol, frame) ==
    LET n == Len(frame)
        cur == frame[n]
        prev == frame[n - 1]
        min_rows == CASE strategy_name = "RSI" -> 15
                      [] strategy_name = "MACD" -> 26
                      [] strategy_name = "SUPERTREND" -> 10
                      [] strategy_name = "ADX" -> 28
                      [] OTHER -> 20
        One == Frac(ConfidenceScale, 1)
        \* min(1.0, confidence)
        Capped(confidence) ==
            IF FracGT(confidence, One) THEN One ELSE confidence
        Vote(signal, confidence) ==
            [StrategySignal(strategy_name, symbol, signal, cur.close, confidence)
                EXCEPT !.timestamp = cur.timestamp]
    IN  IF n < min_rows THEN NoSignal
        ELSE IF strategy_name \in cur.faulty THEN Raised
        ELSE CASE strategy_name = "RSI" ->
                    IF cur.rsi = None THEN NoSignal
                    ELSE IF cur.rsi < 30 /\ prev.rsi >= 30
                    THEN Vote("BUY", Capped(Frac((30 - cur.rsi) * ConfidenceScale,
                                                 30)))
                    ELSE IF cur.rsi > 70 /\ prev.rsi <= 70
                    THEN Vote("SELL", Capped(Frac((cur.rsi - 70) * ConfidenceScale,
                                                  30)))
                    ELSE NoSignal
               [] strategy_name = "MACD" ->
                    IF cur.macd = None THEN NoSignal
                    ELSE IF cur.macd > cur.signal /\ prev.macd <= prev.signal
                    THEN Vote("BUY", Frac(70, 1))
                    ELSE IF cur.macd < cur.signal /\ prev.macd >= prev.signal
                    THEN Vote("SELL", Frac(70, 1))
                    ELSE NoSignal
               [] strategy_name = "SUPERTREND" ->
                    IF cur.direction = 1 /\ prev.direction = -1
                    THEN Vote("BUY", Frac(80, 1))
                    ELSE IF cur.direction = -1 /\ prev.direction = 1
                    THEN Vote("SELL", Frac(80, 1))
                    ELSE NoSignal
               [] strategy_name = "BOLLINGER" ->
                    IF cur.lower_band = None THEN NoSignal
                    ELSE IF cur.close <= cur.lower_band
                    THEN Vote("BUY", Frac(60, 1))
                    ELSE IF cur.close >= cur.upper_band
                    THEN Vote("SELL", Frac(60, 1))
                    ELSE NoSignal
               [] strategy_name = "ADX" ->
                    IF cur.adx = None THEN NoSignal
                    ELSE IF cur.adx > 25 /\ cur.close > cur.sma_20
                    THEN Vote("BUY", Capped(Frac((cur.adx - 25) * ConfidenceScale,
                                                 50)))
                    ELSE IF cur.adx > 25 /\ cur.close < cur.sma_20
                    THEN Vote("SELL", Capped(Frac((cur.adx - 25) * ConfidenceScale,
                                                  50)))
                    ELSE NoSignal
               [] strategy_name = "ATR" ->
                    IF cur.atr = None THEN NoSignal
                    \* price_change divides by prev_close
                    ELSE IF prev.close = 0 THEN NoSignal
                    ELSE IF /\ cur.atr * 10 > prev.atr * 12
                            /\ cur.close > cur.sma_20
                            /\ (cur.close - prev.close) * 100 > prev.close
                    THEN Vote("BUY",
                              Capped(Frac(Abs(cur.close - prev.close) * 10
                                              * ConfidenceScale, prev.close)))
                    ELSE IF /\ cur.atr * 10 > prev.atr * 12
                            /\ cur.close < cur.sma_20
                            /\ (cur.close - prev.close) * 100 < -prev.close
                    THEN Vote("SELL",
                              Capped(Frac(Abs(cur.close - prev.close) * 10
                                              * ConfidenceScale, prev.close)))
                    ELSE NoSignal
               [] strategy_name = "RENKO" ->
                    IF cur.bricks < 3 THEN NoSignal
                    ELSE IF cur.renko_signal = "BULLISH" /\ cur.consecutive_up >= 2
                    THEN Vote("BUY", Capped(Frac(cur.consecutive_up
                                                     * ConfidenceScale, 5)))
                    ELSE IF /\ cur.renko_signal = "BEARISH"
                            /\ cur.consecutive_down >= 2
                    THEN Vote("SELL", Capped(Frac(cur.consecutive_down
                                                      * ConfidenceScale, 5)))
                    ELSE NoSignal
               [] OTHER -> NoSignal

\* the generator without its try: the error of the indicator leaves it
run_strategy_uncaught(strategy_name, symbol, frame) ==
    generate(strategy_name, symbol, frame)

\* a generator with its handler (lines 156-159 for RSI): "except Exception"
\* prints the error and the generator returns None
run_strategy(strategy_name, symbol, frame) ==
    IF generate(strategy_name, symbol, frame).signal = "raised" THEN NoSignal
    ELSE generate(strategy_name, symbol, frame)

\* what get_historical_data finds for the symbols of a run.  "trend" gives
\* every symbol 41 candles closing at 90 and at 80 for the last one: the
\* MACD line crosses above its signal line at candles 35 and 40, the close
\* touches the lower Bollinger band at candles 35, 36 and 41, and the MACD
\* indicator raises on the frame that ends with candle 36.  "staggered"
\* gives B the candles from 12 on only, "sparse" gives A the first 29 and B
\* the candles 25 to 30, "none" gives nothing.  The sessions of the routes
\* meet the first two.
Datasets == {"none", "trend"}

ReplayDatasets == Datasets \cup {"staggered", "sparse"}

candles(dataset, symbol) ==
    LET trend ==
            [ts \in 1 .. 41 |->
                CASE ts = 35 -> [Candle(ts, Q90) EXCEPT !.macd = 1,
                                                       !.lower_band = Q90]
                  [] ts = 36 -> [Candle(ts, Q90) EXCEPT !.lower_band = Q90,
                                                       !.faulty = {"MACD"}]
                  [] ts = 40 -> [Candle(ts, Q90) EXCEPT !.macd = 1]
                  [] ts = 41 -> [Candle(ts, Q80) EXCEPT !.lower_band = Q80]
                  [] OTHER -> Candle(ts, Q90)]
    IN  CASE dataset = "trend" -> trend
          [] dataset = "staggered" ->
               IF symbol = "A" THEN trend ELSE SubSeq(trend, 12, 41)
          [] dataset = "sparse" ->
               IF symbol = "A" THEN SubSeq(trend, 1, 29)
               ELSE SubSeq(trend, 25, 30)
          [] OTHER -> <<>>

\* datetime.fromtimestamp(ts).date(): candles 1 to 20 are of one day,
\* 21 to 40 of the next and candle 41 of a third
fromtimestamp_date(ts) == IF ts <= 20 THEN 1 ELSE IF ts <= 40 THEN 2 ELSE 3

\* run_strategies(symbol, data): the signals of the configured strategies,
\* in the order of the configuration, also appended to all_signals; raised
\* tells that an error left a generator and so run_strategies
run_strategies(ate, symbol, data) ==
    LET RECURSIVE run(_, _)
        run(i, sigs) ==
            IF i > Len(ate.config.strategies) THEN sigs
            ELSE IF sigs # <<>> /\ sigs[Len(sigs)].signal = "raised" THEN sigs
            ELSE LET signal == run_strategy(ate.config.strategies[i], symbol,
                                            data)
                 IN  IF signal.signal = "None" THEN run(i + 1, sigs)
                     ELSE run(i + 1, Append(sigs, signal))
        sigs == IF data = <<>> THEN <<>> ELSE run(1, <<>>)
        raised == sigs # <<>> /\ sigs[Len(sigs)].signal = "raised"
        returned == IF raised THEN SubSeq(sigs, 1, Len(sigs) - 1) ELSE sigs
    IN  [ate |-> [ate EXCEPT !.all_signals = @ \o returned],
         signals |-> returned, raised |-> raised]

\* the engine after a piece of the loop body, and whether an exception left
\* the piece
Ran(ate, raised) == [ate |-> ate, raised |-> raised]

\* lines 920-936 (1009-1020 live) for one symbol with candles data: the
\* strategies, the aggregation of their signals and the trade, each call
\* made once
trade_symbol(ate, symbol, data) ==
    CHOOSE done \in
        { IF r.raised \/ r.signals = <<>> THEN Ran(r.ate, r.raised)
          ELSE CHOOSE executed \in
                 { IF aggregated_signal.signal = "None" THEN Ran(r.ate, FALSE)
                   ELSE Ran(execute_signal(r.ate, aggregated_signal).ate, FALSE) :
                     aggregated_signal \in {aggregate_signals(r.signals)} } : TRUE :
            r \in {run_strategies(ate, symbol, data)} } : TRUE

\* the loop over self.config.symbols of lines 907-936 (1004-1020 live) from
\* its i-th symbol on; data gives the candles up to now of the symbols that
\* have some
RECURSIVE trade_symbols(_, _, _, _)
trade_symbols(ate, data, min_candles, i) ==
    IF i > Len(ate.config.symbols) THEN Ran(ate, FALSE)
    ELSE CHOOSE done \in
           { IF traded.raised THEN traded
             ELSE trade_symbols(traded.ate, data, min_candles, i + 1) :
               traded \in
                 { IF ate.config.symbols[i] \notin DOMAIN data
                   THEN Ran(ate, FALSE)
                   ELSE IF Len(data[ate.config.symbols[i]]) < min_candles
                   THEN Ran(ate, FALSE)
                   ELSE trade_symbol(ate, ate.config.symbols[i],
                                     data[ate.config.symbols[i]]) } } : TRUE

\* the test "current_date not in self.daily_pnl" without its effect
day_recorded_never(daily_pnl, current_date) == FALSE

\* automated_trading.py:939, negated: the day has its entry
day_recorded(daily_pnl, current_date) == current_date \in DOMAIN daily_pnl

\* the statements of the loop body with the strategies run before the sweep
strategies_first(ate, current_prices, data, current_date, min_candles, overwrite) ==
    LET Swept(a) == AutomatedTradingEngine_check_stop_loss_targets(
                        a, current_prices).ate
        Marked(a) == [a EXCEPT !.engine =
                                  update_position_prices(@, current_prices)]
        Tracked(a) ==
            IF overwrite \/ ~day_recorded(a.daily_pnl, current_date)
            THEN [a EXCEPT !.daily_pnl =
                     SetItem(@, current_date, total_pnl(a.engine.portfolio))]
            ELSE a
    IN  CHOOSE done \in
            { IF traded.raised THEN traded
              ELSE Ran(Tracked(Marked(Swept(traded.ate))), FALSE) :
                traded \in {trade_symbols(ate, data, min_candles, 1)} } : TRUE

\* one pass of the loop body shared by run_historical_backtest (lines
\* 900-940) and run_live_trading (lines 997-1023) with the prices and the
\* candles of the pass: sweep, mark, strategies and the day's P&L, in this
\* order and each evaluated once.  min_candles is 30 for a backtest and 0
\* live, overwrite says whether the day's P&L replaces an earlier one.
trading_pass(ate, current_prices, data, current_date, min_candles, overwrite) ==
    LET Swept(a) == AutomatedTradingEngine_check_stop_loss_targets(
                        a, current_prices).ate
        Marked(a) == [a EXCEPT !.engine =
                                  update_position_prices(@, current_prices)]
        Tracked(a) ==
            IF overwrite \/ ~day_recorded(a.daily_pnl, current_date)
            THEN [a EXCEPT !.daily_pnl =
                     SetItem(@, current_date, total_pnl(a.engine.portfolio))]
            ELSE a
    IN  CHOOSE done \in
            { IF traded.raised THEN traded
              ELSE Ran(Tracked(traded.ate), FALSE) :
                traded \in { trade_symbols(marked, data, min_candles, 1) :
                    marked \in { Marked(swept) :
                        swept \in {Swept(ate)} } } } : TRUE

\* lines 834-842: the candles of the symbols that have some
fetch_symbol_data(ate, dataset) ==
    [symbol \in {s \in {ate.config.symbols[i] : i \in DOMAIN ate.config.symbols} :
                    candles(dataset, s) # <<>>}
        |-> candles(dataset, symbol)]

\* lines 865-870: the distinct timestamps of all candles, in increasing order
sorted_timestamps(symbol_data) ==
    LET all_timestamps ==
            UNION { {symbol_data[symbol][i].timestamp :
                        i \in DOMAIN symbol_data[symbol]} :
                    symbol \in DOMAIN symbol_data }
    IN  [i \in 1 .. Cardinality(all_timestamps) |->
            CHOOSE ts \in all_timestamps :
                Cardinality({u \in all_timestamps : u < ts}) = i - 1]

\* lines 893-898: the close of the first candle at ts of each symbol that
\* has one
current_prices_at(symbol_data, ts) ==
    LET at(symbol) == SelectSeq(symbol_data[symbol],
                                LAMBDA c : c.timestamp = ts)
    IN  [symbol \in {s \in DOMAIN symbol_data : at(s) # <<>>}
            |-> at(symbol)[1].close]

\* the slice without its filter: all candles of the symbol
all_candles(symbol_data, symbol, ts) == symbol_data[symbol]

\* lines 912-915: the candles of the symbol with a timestamp up to ts
candles_up_to_now(symbol_data, symbol, ts) ==
    SelectSeq(symbol_data[symbol], LAMBDA c : c.timestamp <= ts)

\* the body of the loop of lines 877-940 for timestamp ts, after its await
timestamp_pass(ate, symbol_data, ts) ==
    trading_pass(ate, current_prices_at(symbol_data, ts),
                 [symbol \in DOMAIN symbol_data |->
                     candles_up_to_now(symbol_data, symbol, ts)],
                 fromtimestamp_date(ts), MinCandles, FALSE)

\* the loop of lines 877-940 over the timestamps number first .. last,
\* without its await, up to the first pass that raises
RECURSIVE backtest_loop(_, _, _, _, _)
backtest_loop(ate, symbol_data, timestamps, first, last) ==
    IF first > last THEN Ran(ate, FALSE)
    ELSE CHOOSE done \in
           { IF passed.raised THEN passed
             ELSE backtest_loop(passed.ate, symbol_data, timestamps,
                                first + 1, last) :
               passed \in
                 { timestamp_pass(ate, symbol_data, timestamps[first]) } } : TRUE

\* no report
NoResults == [portfolio |-> "None"]

\* the test "not symbol_data" without its effect
nothing_fetched_ignored(symbol_data) == FALSE

\* automated_trading.py:844, "not symbol_data": no symbol has candles
nothing_fetched(symbol_data) == DOMAIN symbol_data = {}

\* run_historical_backtest from its start (processed = 1) or from the
\* await of line 888 (resumed, the pass of timestamp number processed still
\* to do) up to the next await ("sleep"), the return of the error dict
\* ("error") or of get_results() ("returned"), or an exception that leaves
\* it ("raised").  The loop awaits at the first timestamp number after the
\* one it starts from that YieldEvery divides.
run_historical_backtest(ate, dataset, processed, resumed) ==
    LET symbol_data == fetch_symbol_data(ate, dataset)
        timestamps == sorted_timestamps(symbol_data)
        total_timestamps == Len(timestamps)
        first == IF resumed THEN processed + 1 ELSE processed
        await == CHOOSE p \in first .. first + YieldEvery :
                     /\ p % YieldEvery = 0
                     /\ \A q \in first .. p - 1 : q % YieldEvery # 0
        last == IF await <= total_timestamps THEN await - 1
                ELSE total_timestamps
    IN  IF nothing_fetched(symbol_data)
        THEN [ate |-> ate, processed |-> 0, pc |-> "error"]
        ELSE CHOOSE result \in
               { [ate |-> looped.ate,
                  processed |-> IF await <= total_timestamps THEN await
                                ELSE total_timestamps,
                  pc |-> IF looped.raised THEN "raised"
                         ELSE IF await <= total_timestamps THEN "sleep"
                         ELSE "returned"] :
                   looped \in { backtest_loop(ate, symbol_data, timestamps,
                                              processed, last) } } : TRUE

\* the status dicts of background_tasks_status; results is the report of a
\* completed run and error the message of a failed one
StatusInfo(status, results, error) ==
    [status |-> status, results |-> results, error |-> error]

\* a coroutine handed to BackgroundTasks
Task(session_id, ate, mode) ==
    [session_id |-> session_id, engine |-> ate, mode |-> mode,
     pc |-> "scheduled", symbol_data |-> "unfetched", processed |-> 0]

\* response holds the answer to the request of the latest step and this
\* when the step was one of a background task
NoResponse == [status_code |-> 0, status |-> "None", detail |-> "None"]

SessionUnchanged ==
    UNCHANGED <<engine, threads, auto, aggregateVars, ret, paper_trading_engines>>

InitSession ==
    /\ active_engines = <<>>
    /\ paper_trading_engines = <<>>
    /\ background_tasks_status = <<>>
    /\ heap = <<>>
    /\ tasks = <<>>
    /\ response = NoResponse
    /\ call = "__init__"
    /\ ret = NoReturn
    /\ engine = None
    /\ threads = <<>>
    /\ auto = None
    /\ signals = <<>>
    /\ decision = None
    /\ df = <<>>

\* POST /start; lines 137-152 register the engine, the status and the task,
\* whatever the registries hold for the session id; max bounds the number of
\* engines created
StartWithin(max) ==
    \E request \in Requests :
    \E r \in {start_automated_trading(request)} :
        /\ r.status_code = 200 => Len(heap) < max
        /\ IF r.status_code = 200
           THEN /\ heap' = Append(heap, AutomatedTradingEngine(r.config))
                /\ active_engines' =
                       SetItem(active_engines, request.session_id, Len(heap) + 1)
                /\ background_tasks_status' =
                       SetItem(background_tasks_status, request.session_id,
                               StatusInfo("running", NoResults, "None"))
                /\ tasks' = Append(tasks, Task(request.session_id, Len(heap) + 1,
                                               r.config.mode))
           ELSE UNCHANGED <<heap, active_engines, background_tasks_status, tasks>>
        /\ response' = [status_code |-> r.status_code,
                        status |-> IF r.status_code = 200 THEN "started"
                                   ELSE "None",
                        detail |-> r.detail]
        /\ call' = "start"
        /\ SessionUnchanged

Start == StartWithin(MaxStarts)

\* the assignment background_tasks_status[session_id]["status"] = status
MarkStatus(session_id, status) ==
    [background_tasks_status EXCEPT ![session_id].status = status]

\* the handler without its assignment: the task ends and the status stays
TaskFails_silently(t, info) ==
    /\ tasks' = [tasks EXCEPT ![t].pc = "done"]
    /\ UNCHANGED <<heap, background_tasks_status>>

\* a step of task t that ends it with status info; the engine is left as is
TaskFails(t, info) ==
    /\ background_tasks_status' =
           SetItem(background_tasks_status, tasks[t].session_id, info)
    /\ tasks' = [tasks EXCEPT ![t].pc = "done"]
    /\ UNCHANGED heap

\* run_historical_trading after run_historical_backtest gave r (an await or
\* a return) with status dict statuses: lines 192-200 for the error dict,
\* 202-293 for the report (a failure to save it is swallowed), 295-306 for
\* an exception, else the task is suspended in the loop
Backtested(t, r, dataset, statuses) ==
    /\ \E now \in IF r.pc = "returned" THEN Now ELSE {0} :
         background_tasks_status' =
           CASE r.pc = "sleep" -> statuses
             [] r.pc = "error" ->
                  SetItem(statuses, tasks[t].session_id,
                          StatusInfo("error", NoResults,
                                     "No historical data available for any symbol."))
             [] r.pc = "raised" ->
                  SetItem(statuses, tasks[t].session_id,
                          StatusInfo("error", NoResults, "str(e)"))
             [] OTHER ->
                  SetItem(statuses, tasks[t].session_id,
                          StatusInfo("completed", get_results(r.ate, now), "None"))
    /\ tasks' = [tasks EXCEPT ![t].pc = IF r.pc = "sleep" THEN "sleeping"
                                        ELSE "done",
                              ![t].symbol_data = dataset,
                              ![t].processed = r.processed]
    /\ heap' = [heap EXCEPT ![tasks[t].engine] = r.ate]

\* the background task run_historical_trading from its start (scheduled) or
\* from the await of line 888 (sleeping) to the next await or its end:
\* connected says whether get_db() finds the database, dataset is what the
\* data source returns for the run
RunHistoricalTrading ==
    \E t \in DOMAIN tasks :
        /\ tasks[t].pc \in {"scheduled", "sleeping"}
        /\ tasks[t].mode = "HISTORICAL"
        /\ IF tasks[t].pc = "sleeping"
           THEN \E r \in {run_historical_backtest(
                              heap[tasks[t].engine], tasks[t].symbol_data,
                              tasks[t].processed, TRUE)} :
                  Backtested(t, r, tasks[t].symbol_data, background_tasks_status)
           ELSE IF tasks[t].session_id \notin DOMAIN background_tasks_status
           THEN TaskFails(t, StatusInfo("error", NoResults, "KeyError"))
           ELSE \E connected \in BOOLEAN :
                  IF ~connected
                  THEN TaskFails(t, StatusInfo("error", NoResults,
                                               "Database not connected"))
                  ELSE \E dataset \in Datasets :
                       \E r \in {run_historical_backtest(
                                     heap[tasks[t].engine], dataset, 1, FALSE)} :
                         Backtested(t, r, dataset,
                                    MarkStatus(tasks[t].session_id, "running"))
        /\ response' = NoResponse
        /\ UNCHANGED active_engines
        /\ call' = "run_historical_trading"
        /\ SessionUnchanged

\* what one pass of the loop of run_live_trading can meet: the market is
\* closed (None), or the data source has no candles, the first 35 or all 41
\* candles of the dataset
LiveData == {None, 0, 35, 41}

\* one pass of the while loop of run_live_trading, up to its sleep; the
\* handler of lines 1028-1030 ends a pass that raises
run_live_trading(ate, live) ==
    IF live <= 0 THEN ate
    ELSE LET symbol_data ==
                 [symbol \in {ate.config.symbols[i] :
                                 i \in DOMAIN ate.config.symbols}
                     |-> SubSeq(candles("trend", symbol), 1, live)]
             \* line 990: the close of the latest candle
             current_prices ==
                 [symbol \in DOMAIN symbol_data |->
                     symbol_data[symbol][Len(symbol_data[symbol])].close]
         IN  trading_pass(ate, current_prices, symbol_data, Today, 0, TRUE).ate

\* the background task run_live_trading from its start (scheduled) or from
\* a sleep of its loop (sleeping) to the next sleep
RunLiveTrading ==
    \E t \in DOMAIN tasks :
        /\ tasks[t].pc \in {"scheduled", "sleeping"}
        /\ tasks[t].mode = "LIVE"
        /\ tasks[t].processed < MaxLiveIterations
        /\ IF /\ tasks[t].pc = "scheduled"
              /\ tasks[t].session_id \notin DOMAIN background_tasks_status
           THEN TaskFails(t, StatusInfo("error", NoResults, "KeyError"))
           ELSE \E live \in LiveData :
                  /\ heap' = [heap EXCEPT ![tasks[t].engine] =
                                 run_live_trading(@, live)]
                  /\ tasks' = [tasks EXCEPT ![t].pc = "sleeping",
                                 ![t].processed = IF live <= 0 THEN @ ELSE @ + 1]
                  /\ background_tasks_status' =
                         IF tasks[t].pc = "scheduled"
                         THEN MarkStatus(tasks[t].session_id, "running")
                         ELSE background_tasks_status
        /\ response' = NoResponse
        /\ UNCHANGED active_engines
        /\ call' = "run_live_trading"
        /\ SessionUnchanged

\* the loop stopping after the first position, as when the dict is
\* iterated while the orders change it
liquidate_first(ate) ==
    LET open == ate.engine.portfolio.positions
    IN  IF open = <<>> THEN ate
        ELSE [ate EXCEPT !.engine =
                 place_order(@, open[1].symbol,
                             IF open[1].side = "LONG" THEN "SELL" ELSE "BUY",
                             open[1].quantity, open[1].current_price,
                             "MARKET", None, None).eng]

\* the loop of stop_trading (lines 394-413) over the positions open when it
\* starts: one closing order each at the position's current_price
liquidate(ate) ==
    LET open == ate.engine.portfolio.positions
        RECURSIVE close(_, _)
        close(eng, i) ==
            IF i > Len(open) THEN eng
            ELSE close(place_order(eng, open[i].symbol,
                                   IF open[i].side = "LONG" THEN "SELL" ELSE "BUY",
                                   open[i].quantity, open[i].current_price,
                                   "MARKET", None, None).eng,
                       i + 1)
    IN  [ate EXCEPT !.engine = close(@, 1)]

\* the statuses place_order answers to the closing orders of stop_trading,
\* one for each position of open from the i-th on
RECURSIVE closing_statuses(_, _, _)
closing_statuses(eng, open, i) ==
    IF i > Len(open) THEN <<>>
    ELSE CHOOSE statuses \in
             { <<r.result.status>> \o closing_statuses(r.eng, open, i + 1) :
                 r \in {place_order(eng, open[i].symbol,
                                    IF open[i].side = "LONG" THEN "SELL"
                                    ELSE "BUY",
                                    open[i].quantity, open[i].current_price,
                                    "MARKET", None, None)} } : TRUE

\* the list closed_positions of stop_trading (lines 393-411): an entry for
\* each position whose closing order was answered "EXECUTED"
closed_positions(ate) ==
    LET open == ate.engine.portfolio.positions
        Listed(statuses) ==
            SelectSeq([i \in DOMAIN open |->
                          [symbol |-> open[i].symbol,
                           quantity |-> open[i].quantity,
                           status |-> statuses[i]]],
                      LAMBDA c : c.status = "EXECUTED")
    IN  CHOOSE closed \in
            { [i \in DOMAIN listed |->
                  [symbol |-> listed[i].symbol,
                   quantity |-> listed[i].quantity]] :
                listed \in { Listed(statuses) :
                    statuses \in {closing_statuses(ate.engine, open, 1)} } } :
            TRUE

\* POST /stop/{session_id}; the response carries closed_positions and the
\* count of its message ("Closed n positions.")
StopTradingOf(session_id) ==
        /\ IF session_id \notin DOMAIN active_engines
           THEN /\ response' = [status_code |-> 404, status |-> "None",
                                detail |-> "Session not found"]
                /\ UNCHANGED <<heap, background_tasks_status>>
           ELSE /\ heap' = [heap EXCEPT ![active_engines[session_id]] =
                                liquidate(@)]
                /\ IF session_id \in DOMAIN background_tasks_status
                   THEN /\ background_tasks_status' =
                               MarkStatus(session_id, "stopped")
                        /\ \E closed \in {closed_positions(
                                               heap[active_engines[session_id]])} :
                             response' =
                               [status_code |-> 200, status |-> "stopped",
                                detail |-> "None",
                                closed_positions |-> closed,
                                closed_count |-> Len(closed)]
                   ELSE /\ UNCHANGED background_tasks_status
                        /\ response' = [status_code |-> 500, status |-> "None",
                                        detail |-> "KeyError"]
        /\ UNCHANGED <<active_engines, tasks>>
        /\ call' = "stop_trading"
        /\ SessionUnchanged

StopTrading == \E session_id \in SessionIds : StopTradingOf(session_id)

\* DELETE /session/{session_id}; connected as for the background task
DeleteSessionOf(session_id) ==
    \E connected \in BOOLEAN :
        /\ active_engines' = DelItem(active_engines, session_id)
        /\ background_tasks_status' = DelItem(background_tasks_status, session_id)
        /\ response' = [status_code |-> IF connected THEN 200 ELSE 500,
                        status |-> IF connected THEN "success" ELSE "None",
                        detail |-> IF connected THEN "None"
                                   ELSE "Failed to delete session"]
        /\ UNCHANGED <<heap, tasks>>
        /\ call' = "delete_session"
        /\ SessionUnchanged

DeleteSession == \E session_id \in SessionIds : DeleteSessionOf(session_id)

\* GET /status/{session_id} answered from the status registry statuses
get_trading_status(statuses, session_id) ==
    IF session_id \notin DOMAIN statuses
    THEN [session_id |-> session_id, status |-> "not_found",
          results |-> NoResults, error |-> "Session not found"]
    ELSE [session_id |-> session_id, status |-> statuses[session_id].status,
          results |-> statuses[session_id].results,
          error |-> statuses[session_id].error]

NextSession ==
    \/ Start
    \/ RunHistoricalTrading
    \/ RunLiveTrading
    \/ StopTrading
    \/ DeleteSession

SpecSession == InitSession /\ [][NextSession]_vars

\* task t is suspended at an await of run_historical_trading or not yet
\* started: the event loop can run it
Ready(t) ==
    /\ t \in DOMAIN tasks
    /\ tasks[t].mode = "HISTORICAL"
    /\ tasks[t].pc \in {"scheduled", "sleeping"}

\* the event loop of asyncio runs every ready task in turn: weak fairness
\* of the steps of each task of run_historical_trading, written out with
\* Ready(t) for the enabling condition of the step of task t
SpecSessionFair ==
    /\ SpecSession
    /\ \A t \in 1 .. MaxStarts :
         \/ []<>(~Ready(t))
         \/ []<><<call' = "run_historical_trading" /\ tasks'[t] # tasks[t]>>_vars

(***************************************************************************)
(* SpecRestart: a session that was started once, its background task not   *)
(* yet run, and further POST /start requests for the same session id while *)
(* the tasks run                                                           *)
(***************************************************************************)
MaxRestarts == 1

InitRestart ==
    /\ \E request \in Requests :
       \E r \in {start_automated_trading(request)} :
           /\ r.status_code = 200
           /\ heap = <<AutomatedTradingEngine(r.config)>>
           /\ active_engines = SetItem(<<>>, request.session_id, 1)
           /\ background_tasks_status =
                  SetItem(<<>>, request.session_id,
                          StatusInfo("running", NoResults, "None"))
           /\ tasks = <<Task(request.session_id, 1, r.config.mode)>>
           /\ response = [status_code |-> 200, status |-> "started",
                          detail |-> r.detail]
    /\ call = "start"
    /\ paper_trading_engines = <<>>
    /\ ret = NoReturn
    /\ engine = None
    /\ threads = <<>>
    /\ auto = None
    /\ signals = <<>>
    /\ decision = None
    /\ df = <<>>

Restart == StartWithin(1 + MaxRestarts)

NextRestart ==
    \/ Restart
    \/ RunHistoricalTrading
    \/ RunLiveTrading

SpecRestart == InitRestart /\ [][NextRestart]_vars

(***************************************************************************)
(* SpecExample: the engine of example_1_simple_trade (examples.py), built  *)
(* with the defaults of PaperTradingEngine.__init__ for what the example   *)
(* does not pass, and the orders and price updates of the example          *)
(***************************************************************************)
MaxExampleOrders == 3

R2500 == 2500 * MoneyScale
R2600 == 2600 * MoneyScale

InitExample ==
    /\ engine = PaperTradingEngine(
                    [initial_capital |-> 100000 * MoneyScale,
                     max_positions |-> 10, max_position_size |-> 20,
                     brokerage_per_trade |-> 20 * MoneyScale,
                     slippage_percent |-> 10, allow_short |-> FALSE])
    /\ call = "__init__"
    /\ ret = NoReturn
    /\ threads = [t \in Threads |-> IdleThread]
    /\ NoAutomation

NextExample ==
    \/ /\ Len(engine.orders) < MaxExampleOrders
       /\ \E symbol \in Symbols, side \in Sides, quantity \in {5, 10},
             price \in {R2500, R2600} :
          \E r \in {place_order(engine, symbol, side, quantity, price,
                                "MARKET", None, None)} :
                /\ engine' = r.eng
                /\ call' = "place_order"
                /\ ret' = Returned(r.result)
       /\ UNCHANGED <<threads, auto, aggregateVars, sessionVars>>
    \/ /\ \E symbol \in Symbols :
            engine' = update_position_prices(engine, symbol :> R2600)
       /\ call' = "update_position_prices"
       /\ ret' = NoReturn
       /\ UNCHANGED <<threads, auto, aggregateVars, sessionVars>>

SpecExample == InitExample /\ [][NextExample]_vars

(***************************************************************************)
(* SpecBacktest: run_historical_backtest of one engine, a step for the     *)
(* fetch of the data, for each pass of the loop over the timestamps and    *)
(* for the return of the report                                            *)
(***************************************************************************)
InitBacktest ==
    /\ auto = AutomatedTradingEngine(
                  AutoTradingConfig(<<"A", "B">>, 1, 2, <<"MACD", "BOLLINGER">>,
                                    "HISTORICAL"))
    /\ tasks = <<Task("s1", 0, "HISTORICAL")>>
    /\ response = NoResponse
    /\ call = "__init__"
    /\ ret = NoReturn
    /\ engine = None
    /\ threads = <<>>
    /\ signals = <<>>
    /\ decision = None
    /\ df = <<>>
    /\ active_engines = <<>>
    /\ paper_trading_engines = <<>>
    /\ background_tasks_status = <<>>
    /\ heap = <<>>

\* lines 834-861: the data source answers with dataset; without candles the
\* error dict is returned
FetchData ==
    \E dataset \in ReplayDatasets :
        /\ tasks[1].pc = "scheduled"
        /\ IF nothing_fetched(fetch_symbol_data(auto, dataset))
           THEN /\ tasks' = [tasks EXCEPT ![1].pc = "done",
                                          ![1].symbol_data = dataset]
                /\ response' = [error |->
                                  "No historical data available for any symbol."]
           ELSE /\ tasks' = [tasks EXCEPT ![1].pc = "loop",
                                          ![1].symbol_data = dataset]
                /\ UNCHANGED response
        /\ call' = "get_historical_data"
        /\ UNCHANGED <<auto, engine, threads, aggregateVars, ret,
                       active_engines, background_tasks_status, heap,
                       paper_trading_engines>>

\* lines 877-940: the pass of the next timestamp; an exception ends the run
ProcessTimestamp ==
    LET symbol_data == fetch_symbol_data(auto, tasks[1].symbol_data)
        timestamps == sorted_timestamps(symbol_data)
    IN  /\ tasks[1].pc = "loop"
        /\ tasks[1].processed < Len(timestamps)
        /\ \E passed \in {timestamp_pass(auto, symbol_data,
                                         timestamps[tasks[1].processed + 1])} :
             /\ auto' = passed.ate
             /\ tasks' = [tasks EXCEPT ![1].processed = @ + 1,
                                       ![1].pc = IF passed.raised THEN "raised"
                                                 ELSE "loop"]
        /\ call' = "run_historical_backtest"
        /\ UNCHANGED <<response, engine, threads, aggregateVars, ret,
                       active_engines, background_tasks_status, heap,
                       paper_trading_engines>>

\* line 951 after the last timestamp
ReturnResults ==
    /\ tasks[1].pc = "loop"
    /\ tasks[1].processed =
           Len(sorted_timestamps(fetch_symbol_data(auto, tasks[1].symbol_data)))
    /\ \E now \in Now : response' = get_results(auto, now)
    /\ tasks' = [tasks EXCEPT ![1].pc = "done"]
    /\ call' = "get_results"
    /\ UNCHANGED <<auto, engine, threads, aggregateVars, ret,
                   active_engines, background_tasks_status, heap,
                       paper_trading_engines>>

NextBacktest ==
    \/ FetchData
    \/ ProcessTimestamp
    \/ ReturnResults

SpecBacktest == InitBacktest /\ [][NextBacktest]_vars

(***************************************************************************)
(* SpecStrategies: run_strategies of an engine configured with the seven   *)
(* strategies, called for one symbol on a frame that grows by a candle     *)
(* between the calls, as in the loop of a replay                           *)
(***************************************************************************)
MaxBars == 3

\* the candles that can follow candle prev: a quiet one, or one on which
\* the RSI is oversold, the MACD line is above its signal line, the
\* Supertrend points down, the close is on the lower Bollinger band, the ADX
\* shows a trend above the average, the ATR expands on a rising close, or
\* the Renko bricks rise
NextCandles(prev) ==
    LET ts == prev.timestamp + 1
        quiet == Candle(ts, prev.close)
    IN  { quiet,
          [quiet EXCEPT !.rsi = 25],
          [quiet EXCEPT !.macd = 1],
          [quiet EXCEPT !.direction = -1],
          [quiet EXCEPT !.lower_band = prev.close],
          [quiet EXCEPT !.adx = 35, !.sma_20 = prev.close - MoneyScale],
          [Candle(ts, prev.close + 2 * MoneyScale)
              EXCEPT !.atr = (prev.atr * 13) \div 10, !.sma_20 = prev.close],
          [quiet EXCEPT !.renko_signal = "BULLISH", !.consecutive_up = 3] }

InitStrategies ==
    /\ auto = AutomatedTradingEngine(
                  AutoTradingConfig(<<"A">>, 1, 2, valid_strategies,
                                    "HISTORICAL"))
    /\ df = [ts \in 1 .. MinCandles |-> Candle(ts, Q90)]
    /\ signals = <<>>
    /\ decision = None
    /\ call = "__init__"
    /\ ret = NoReturn
    /\ response = None
    /\ engine = None
    /\ threads = <<>>
    /\ active_engines = <<>>
    /\ paper_trading_engines = <<>>
    /\ background_tasks_status = <<>>
    /\ heap = <<>>
    /\ tasks = <<>>

\* line 923 for the frame with its next candle
RunStrategies ==
    /\ Len(df) < MinCandles + MaxBars
    /\ \E candle \in NextCandles(df[Len(df)]) :
       \E r \in {run_strategies(auto, "A", Append(df, candle))} :
         /\ df' = Append(df, candle)
         /\ signals' = r.signals
         /\ auto' = r.ate
    /\ call' = "run_strategies"
    /\ UNCHANGED <<decision, ret, engine, threads, sessionVars>>

NextStrategies == RunStrategies

SpecStrategies == InitStrategies /\ [][NextStrategies]_vars

(***************************************************************************)
(* SpecSessions: two sessions of the paper-trading routes and two of the   *)
(* automated-trading routes, the latter with their HISTORICAL runs         *)
(* completed, and the requests that name a session                         *)
(***************************************************************************)
MaxPaperOrders == 1

PaperSessionIds == {"a", "b"}

AutoSessionIds == {"s1", "s2"}

\* the engine of a session of the paper-trading routes, created with the
\* defaults of PaperTradingEngine.__init__ when the session has none: the
\* dict after the call and the key of the engine returned
get_engine_global(engines, session_id) ==
    [engines |-> IF "default" \in DOMAIN engines THEN engines
                 ELSE SetItem(engines, "default",
                              PaperTradingEngine(
                                  [initial_capital |-> 100000 * MoneyScale,
                                   max_positions |-> 10, max_position_size |-> 20,
                                   brokerage_per_trade |-> 20 * MoneyScale,
                                   slippage_percent |-> 10, allow_short |-> FALSE])),
     key |-> "default"]

get_engine(engines, session_id) ==
    [engines |-> IF session_id \in DOMAIN engines THEN engines
                 ELSE SetItem(engines, session_id,
                              PaperTradingEngine(
                                  [initial_capital |-> 100000 * MoneyScale,
                                   max_positions |-> 10, max_position_size |-> 20,
                                   brokerage_per_trade |-> 20 * MoneyScale,
                                   slippage_percent |-> 10, allow_short |-> FALSE])),
     key |-> session_id]

\* PaperTradingEngine.reset: __init__ again with the configuration kept
reset(eng) ==
    PaperTradingEngine(
        [initial_capital |-> eng.portfolio.initial_capital,
         max_positions |-> eng.max_positions,
         max_position_size |-> eng.max_position_size,
         brokerage_per_trade |-> eng.portfolio.brokerage_per_trade,
         slippage_percent |-> eng.portfolio.slippage_percent,
         allow_short |-> eng.allow_short])

PaperUnchanged ==
    UNCHANGED <<engine, threads, auto, aggregateVars, ret, active_engines,
                background_tasks_status, heap, tasks>>

\* the engine of a HISTORICAL session after its run over dataset
Completed(dataset) ==
    LET ate == AutomatedTradingEngine(
                   AutoTradingConfig(<<"A", "B">>, 1, 2, <<"MACD", "BOLLINGER">>,
                                     "HISTORICAL"))
        symbol_data == fetch_symbol_data(ate, dataset)
        timestamps == sorted_timestamps(symbol_data)
    IN  backtest_loop(ate, symbol_data, timestamps, 1, Len(timestamps)).ate

\* the state after POST /start for s1 and for s2 and the end of both runs
InitSessions ==
    /\ paper_trading_engines = <<>>
    /\ heap = <<Completed("trend"), Completed("staggered")>>
    /\ active_engines = SetItem(SetItem(<<>>, "s1", 1), "s2", 2)
    /\ background_tasks_status =
           SetItem(SetItem(<<>>, "s1",
                           StatusInfo("completed",
                                      get_results(Completed("trend"), 1), "None")),
                   "s2",
                   StatusInfo("completed",
                              get_results(Completed("staggered"), 1), "None"))
    /\ tasks = <<[Task("s1", 1, "HISTORICAL") EXCEPT
                    !.pc = "done", !.symbol_data = "trend", !.processed = 41],
                 [Task("s2", 2, "HISTORICAL") EXCEPT
                    !.pc = "done", !.symbol_data = "staggered",
                    !.processed = 41]>>
    /\ response = NoResponse
    /\ call = "run_historical_trading"
    /\ ret = NoReturn
    /\ engine = None
    /\ threads = <<>>
    /\ auto = None
    /\ signals = <<>>
    /\ decision = None
    /\ df = <<>>

\* POST /order
PaperPlaceOrder(session_id) ==
    \E side \in Sides :
    \E g \in {get_engine(paper_trading_engines, session_id)} :
        /\ Len(g.engines[g.key].orders) < MaxPaperOrders
        /\ \E r \in {place_order(g.engines[g.key], "A", side, 1, P2, "MARKET",
                                 P1, None)} :
             /\ paper_trading_engines' = [g.engines EXCEPT ![g.key] = r.eng]
             /\ response' = [status_code |-> 200, status |-> r.result.status,
                             detail |-> "None"]
        /\ call' = "place_order"
        /\ PaperUnchanged

\* POST /prices/update: the marks, then the sweep of stops and targets
PaperUpdatePrices(session_id) ==
    \E g \in {get_engine(paper_trading_engines, session_id)} :
        /\ paper_trading_engines' =
               [g.engines EXCEPT ![g.key] =
                   check_stop_loss_targets(
                       update_position_prices(@, "A" :> P1)).eng]
        /\ response' = [status_code |-> 200, status |-> "success",
                        detail |-> "None"]
        /\ call' = "update_prices"
        /\ PaperUnchanged

\* POST /reset
ResetEngine(session_id) ==
    /\ IF session_id \in DOMAIN paper_trading_engines
       THEN /\ paper_trading_engines' =
                   [paper_trading_engines EXCEPT ![session_id] = reset(@)]
            /\ response' = [status_code |-> 200, status |-> "success",
                            detail |-> "None"]
       ELSE /\ UNCHANGED paper_trading_engines
            /\ response' = [status_code |-> 404, status |-> "None",
                            detail |-> "Engine not found"]
    /\ call' = "reset_engine"
    /\ PaperUnchanged

\* DELETE /session/{session_id} of the paper-trading routes
PaperDeleteSession(session_id) ==
    /\ IF session_id \in DOMAIN paper_trading_engines
       THEN /\ paper_trading_engines' =
                   DelItem(paper_trading_engines, session_id)
            /\ response' = [status_code |-> 200, status |-> "success",
                            detail |-> "None"]
       ELSE /\ UNCHANGED paper_trading_engines
            /\ response' = [status_code |-> 404, status |-> "None",
                            detail |-> "Session not found"]
    /\ call' = "paper_delete_session"
    /\ PaperUnchanged

NextSessions ==
    \/ \E session_id \in PaperSessionIds : PaperPlaceOrder(session_id)
    \/ \E session_id \in PaperSessionIds : PaperUpdatePrices(session_id)
    \/ \E session_id \in PaperSessionIds : ResetEngine(session_id)
    \/ \E session_id \in PaperSessionIds : PaperDeleteSession(session_id)
    \/ \E session_id \in AutoSessionIds : StopTradingOf(session_id)
    \/ \E session_id \in AutoSessionIds : DeleteSessionOf(session_id)

SpecSessions == InitSessions /\ [][NextSessions]_vars

(***************************************************************************)
(* Properties of the single-caller engine                                  *)
(***************************************************************************)
pf == engine.portfolio

OpenIndex(positions, symbol) ==
    {i \in DOMAIN positions : positions[i].symbol = symbol}

NewOrderIndex == (Len(engine.orders) + 1) .. Len(engine'.orders)

NewClosedIndex ==
    (Len(pf.closed_positions) + 1) .. Len(engine'.portfolio.closed_positions)

LedgerUnchanged ==
    /\ engine'.portfolio.current_capital = pf.current_capital
    /\ engine'.portfolio.positions = pf.positions
    /\ engine'.portfolio.closed_positions = pf.closed_positions
    /\ engine'.portfolio.total_brokerage_paid = pf.total_brokerage_paid
    /\ engine'.trades = engine.trades

\* C1: in every state reached by place_order calls, price updates and sweeps,
\* current_capital + invested_capital + unrealized_pnl equals initial_capital
\* + realized_pnl + unrealized_pnl - total_brokerage_paid within 0.01, i.e.
\* get_results' final_value equals the portfolio's portfolio_value.
C1_AccountingIdentity ==
    Abs(portfolio_value(pf) - final_value(pf)) <= Tolerance

\* C2: in every reachable state the total_pnl the portfolio reports equals
\* portfolio_value - initial_capital within 0.01.
C2_TotalPnlIsValueChange ==
    Abs(total_pnl(pf) - (portfolio_value(pf) - pf.initial_capital)) <= Tolerance

\* C3: a position is moved to closed_positions exactly once, and each move
\* comes with an executed SELL order for its symbol whose executed_quantity
\* equals the position's quantity.
C3_ClosedOnceByFullOrder ==
    [][\A j \in NewClosedIndex :
         LET p == engine'.portfolio.closed_positions[j]
         IN  /\ \A k \in DOMAIN engine'.portfolio.closed_positions :
                  engine'.portfolio.closed_positions[k].position_id = p.position_id
                      => k = j
             /\ \A k \in DOMAIN engine'.portfolio.positions :
                  engine'.portfolio.positions[k].position_id # p.position_id
             /\ \E i \in NewOrderIndex :
                  LET o == engine'.orders[i]
                  IN  /\ o.symbol = p.symbol
                      /\ o.side = "SELL"
                      /\ o.status = "EXECUTED"
                      /\ o.executed_quantity = p.quantity]_vars

\* C4: a SELL for more than the open position of its symbol holds is REJECTED
\* and changes nothing, and no open position ever has a quantity below zero.
C4_OversellRejected ==
    /\ [](\A i \in DOMAIN pf.positions : pf.positions[i].quantity >= 0)
    /\ [][\A i \in NewOrderIndex :
            LET o == engine'.orders[i]
            IN  (/\ o.side = "SELL"
                 /\ \E k \in OpenIndex(pf.positions, o.symbol) :
                      o.quantity > pf.positions[k].quantity)
                => /\ o.status = "REJECTED"
                   /\ ret'.status = "REJECTED"
                   /\ LedgerUnchanged]_vars

C4_Witness ==
    /\ call = "place_order"
    /\ ret.status = "REJECTED"
    /\ ret.message = "Insufficient quantity"
    /\ Len(engine.orders) > 0
    /\ LET o == engine.orders[Len(engine.orders)]
       IN  /\ o.side = "SELL" /\ o.status = "REJECTED"
           /\ \E k \in OpenIndex(pf.positions, o.symbol) :
                o.quantity > pf.positions[k].quantity

\* C5: a BUY for a symbol that has an open position is REJECTED and leaves
\* every open position as it was; no symbol ever has two open positions.
C5_DuplicateBuyRejected ==
    /\ [](\A s \in Symbols : Cardinality(OpenIndex(pf.positions, s)) <= 1)
    /\ [][\A i \in NewOrderIndex :
            LET o == engine'.orders[i]
            IN  (o.side = "BUY" /\ OpenIndex(pf.positions, o.symbol) # {})
                => /\ o.status = "REJECTED"
                   /\ ret'.status = "REJECTED"
                   /\ engine'.portfolio.positions = pf.positions]_vars

C5_Witness ==
    /\ call = "place_order"
    /\ ret.status = "REJECTED"
    /\ ret.message = "Position already exists for this symbol"
    /\ Len(engine.orders) > 0
    /\ LET o == engine.orders[Len(engine.orders)]
       IN  /\ o.side = "BUY" /\ o.status = "REJECTED"
           /\ OpenIndex(pf.positions, o.symbol) # {}

\* C6: the number of open positions never exceeds max_positions, and a BUY
\* for a new symbol placed when the count equals max_positions is REJECTED
\* whatever the available cash.
C6_MaxPositions ==
    /\ [](Len(pf.positions) <= engine.max_positions)
    /\ [][\A i \in NewOrderIndex :
            LET o == engine'.orders[i]
            IN  (/\ o.side = "BUY"
                 /\ OpenIndex(pf.positions, o.symbol) = {}
                 /\ Len(pf.positions) = engine.max_positions)
                => /\ o.status = "REJECTED"
                   /\ ret'.status = "REJECTED"
                   /\ LedgerUnchanged]_vars

\* the rejected BUY was affordable and within the position-size limit
C6_Witness ==
    /\ call = "place_order"
    /\ ret.status = "REJECTED"
    /\ ret.message = "Maximum positions limit reached"
    /\ Len(pf.positions) = engine.max_positions
    /\ Len(engine.orders) > 0
    /\ LET o == engine.orders[Len(engine.orders)]
           cost == (o.price + (o.price * pf.slippage_percent)
                               \div (100 * PercentScale)) * o.quantity
       IN  /\ o.side = "BUY" /\ o.status = "REJECTED"
           /\ OpenIndex(pf.positions, o.symbol) = {}
           /\ cost * 100 <= pf.initial_capital * engine.max_position_size
           /\ cost + pf.brokerage_per_trade <= pf.current_capital

\* C7: a place_order call that returns REJECTED leaves current_capital, the
\* open positions, closed_positions, total_brokerage_paid and trades as they
\* were.
C7_RejectionChangesNothing ==
    [][(call' = "place_order" /\ ret'.status = "REJECTED")
        => LedgerUnchanged]_vars

\* a BUY rejected for insufficient capital, the last of the BUY tests
C7_Witness ==
    /\ call = "place_order"
    /\ ret.status = "REJECTED"
    /\ ret.message = "Insufficient capital"
    /\ Len(pf.positions) > 0
    /\ pf.total_brokerage_paid > 0

\* C9: realized_pnl is 0 for an open position; for a closed one it is
\* (exit_price - entry_price) x quantity (LONG; sign-flipped for SHORT) and no
\* later operation changes it; close on a closed position raises and changes
\* nothing.
C9_RealizedPnlFixed ==
    /\ [](/\ \A i \in DOMAIN pf.positions :
               Position_realized_pnl(pf.positions[i]) = 0
          /\ \A i \in DOMAIN pf.closed_positions :
               LET p == pf.closed_positions[i]
               IN  /\ p.exit_price # None
                   /\ Position_realized_pnl(p) =
                        IF p.side = "LONG"
                        THEN (p.exit_price - p.entry_price) * p.quantity
                        ELSE (p.entry_price - p.exit_price) * p.quantity)
    /\ [][/\ \A i \in DOMAIN pf.closed_positions :
               /\ i \in DOMAIN engine'.portfolio.closed_positions
               /\ engine'.portfolio.closed_positions[i] = pf.closed_positions[i]
          /\ call' = "Position.close"
               => (ret'.status = "ERROR" /\ engine' = engine)]_vars

\* close was called on a closed position whose P&L is not zero
C9_Witness ==
    /\ call = "Position.close"
    /\ ret.status = "ERROR"
    /\ \E i \in DOMAIN pf.closed_positions :
         Position_realized_pnl(pf.closed_positions[i]) # 0

\* C8: handlers of one session never interleave mid-update: no finished BUY
\* handler has aborted or left cash debited and brokerage charged without its
\* position, and two BUYs for one symbol never both execute.
C8_NoInterleavedUpdate ==
    /\ \A t \in Threads :
         threads[t].pc = "done" =>
           /\ threads[t].status \in {"SUCCESS", "REJECTED"}
           /\ (threads[t].order.side = "BUY"
               /\ threads[t].order.status = "EXECUTED")
              => \E i \in DOMAIN (pf.positions \o pf.closed_positions) :
                   (pf.positions \o pf.closed_positions)[i].position_id
                       = threads[t].order.order_id
    /\ \A t, u \in Threads :
         (/\ t # u
          /\ threads[t].pc = "done" /\ threads[u].pc = "done"
          /\ threads[t].order.side = "BUY" /\ threads[u].order.side = "BUY"
          /\ threads[t].order.symbol = threads[u].order.symbol)
         => ~(threads[t].order.status = "EXECUTED"
              /\ threads[u].order.status = "EXECUTED")

\* C10: an order of the history is in a terminal status, and an order that
\* is EXECUTED, REJECTED or CANCELLED keeps that status under every later
\* execute, reject or cancel.
C10_OrderStatusTerminal ==
    /\ [](\A i \in DOMAIN engine.orders :
            engine.orders[i].status \in {"EXECUTED", "REJECTED", "CANCELLED"})
    /\ [][\A i \in DOMAIN engine.orders :
            engine.orders[i].status \in {"EXECUTED", "REJECTED", "CANCELLED"}
            => /\ i \in DOMAIN engine'.orders
               /\ engine'.orders[i].status = engine.orders[i].status]_vars

(***************************************************************************)
(* Properties of aggregate_signals (SpecAggregate)                         *)
(***************************************************************************)
\* the votes of one side among the signals handed in
VotesFor(side) == {i \in DOMAIN signals : signals[i].signal = side}

\* the sum of their confidences, in hundredths
ConfidenceFor(side) ==
    SumSeq([i \in DOMAIN signals |->
              IF signals[i].signal = side THEN signals[i].confidence.num ELSE 0])

Opposite(side) == IF side = "BUY" THEN "SELL" ELSE "BUY"

\* side has strictly more votes than the other side and an average
\* confidence strictly above 0.3
ClearMajority(side) ==
    /\ Cardinality(VotesFor(side)) > Cardinality(VotesFor(Opposite(side)))
    /\ ConfidenceFor(side) > MinConfidence * Cardinality(VotesFor(side))

\* C13: aggregate_signals decides for side X only if X has strictly more
\* votes than the other side and X's average confidence is strictly above
\* 0.3; a tie, an empty vote set or a majority whose average confidence is
\* at most 0.3 gives no decision, and the minority side is never chosen.
C13_MajorityAboveFloor ==
    decision # Pending =>
        /\ decision.signal \in {"BUY", "SELL", "None"}
        /\ \A side \in {"BUY", "SELL"} :
             decision.signal = side => ClearMajority(side)
        /\ (~ClearMajority("BUY") /\ ~ClearMajority("SELL")) =>
             decision = NoSignal

\* a majority of BUY votes whose average confidence is exactly 0.3
C13_Witness ==
    /\ decision = NoSignal
    /\ Cardinality(VotesFor("BUY")) > Cardinality(VotesFor("SELL"))
    /\ Cardinality(VotesFor("SELL")) > 0
    /\ ConfidenceFor("BUY") = MinConfidence * Cardinality(VotesFor("BUY"))

\* C14: the confidence of a decision is (sum of the winning side's
\* confidences / winning votes) x (winning votes / BUY+SELL votes); three
\* BUY votes of 0.6, 0.7, 0.5 and one SELL vote of 0.9 give BUY with 0.45.
C14_DecisionConfidence ==
    /\ \A side \in {"BUY", "SELL"} :
         decision.signal = side =>
           LET winning == Cardinality(VotesFor(side))
               total == Cardinality(VotesFor("BUY")) + Cardinality(VotesFor("SELL"))
           IN  FracEq(decision.confidence,
                      FracMul(Frac(ConfidenceFor(side), winning),
                              Frac(winning, total)))
    /\ ( /\ decision # Pending
         /\ Len(signals) = 4
         /\ [i \in 1 .. 4 |-> signals[i].signal] = <<"BUY", "BUY", "BUY", "SELL">>
         /\ [i \in 1 .. 4 |-> signals[i].confidence.num] = <<60, 70, 50, 90>> )
       => /\ decision.signal = "BUY"
          /\ FracEq(decision.confidence, Frac(45, 1))

\* three BUY votes with confidences summing to 1.8 and one SELL vote, in any
\* order: the decision is BUY with confidence 0.45
C14_Witness ==
    /\ decision.signal = "BUY"
    /\ Cardinality(VotesFor("BUY")) = 3
    /\ Cardinality(VotesFor("SELL")) = 1
    /\ ConfidenceFor("BUY") = 180
    /\ FracEq(decision.confidence, Frac(45, 1))

(***************************************************************************)
(* Properties of the sweeps (SpecAuto)                                     *)
(***************************************************************************)
SweepCalls ==
    {"engine.check_stop_loss_targets",
     "AutomatedTradingEngine.check_stop_loss_targets"}

\* the orders a step appended to the order history of the wrapped engine
NewAutoOrderIndex ==
    (Len(auto.engine.orders) + 1) .. Len(auto'.engine.orders)

\* C11: a sweep that closes a position because the price crossed its
\* stop-loss (its target) places the closing order at the stop price (the
\* target price), in the engine sweep and in the automated sweep alike.
C11_SweepClosesAtTriggerPrice ==
    [][call' \in SweepCalls =>
         \A j \in DOMAIN ret'.auto_orders :
           \A i \in NewAutoOrderIndex :
             auto'.engine.orders[i].order_id = ret'.auto_orders[j].order_id =>
               LET order == auto'.engine.orders[i]
                   position == get_position(auto.engine.portfolio, order.symbol)
               IN  order.price =
                     IF ret'.auto_orders[j].trigger = "STOP_LOSS"
                     THEN position.stop_loss ELSE position.target]_vars

\* C12: one sweep places at most one closing order per open position, each
\* labelled STOP_LOSS or TARGET; a position for which the stop-loss and the
\* target condition hold together is closed as STOP_LOSS.
C12_OneTriggerPerPosition ==
    [][call' \in SweepCalls =>
         /\ Len(ret'.auto_orders) <= Len(auto.engine.portfolio.positions)
         /\ \A j \in DOMAIN ret'.auto_orders :
              ret'.auto_orders[j].trigger \in {"STOP_LOSS", "TARGET"}
         /\ \A k \in DOMAIN auto.engine.portfolio.positions :
              LET position == auto.engine.portfolio.positions[k]
                  closing == {i \in NewAutoOrderIndex :
                                auto'.engine.orders[i].symbol = position.symbol}
                  labels ==
                      {ret'.auto_orders[j].trigger :
                         j \in {j \in DOMAIN ret'.auto_orders :
                                  \E i \in closing :
                                    auto'.engine.orders[i].order_id
                                        = ret'.auto_orders[j].order_id}}
                  \* the price the sweep tested, and the stop-loss and target
                  \* it tested it against: the position's own mark and bracket
                  \* in the engine sweep, the bar's price and the bracket of
                  \* position_metadata in the automated sweep
                  m == KeyIndex(auto.position_metadata, position.symbol)
                  tested ==
                      IF call' = "engine.check_stop_loss_targets"
                      THEN IF position.stop_loss = None \/ position.target = None
                           THEN {}
                           ELSE {<<position.current_price, position.stop_loss,
                                   position.target>>}
                      ELSE IF m = 0 THEN {}
                      ELSE {<<auto'.engine.orders[i].price,
                              auto.position_metadata[m].stop_loss,
                              auto.position_metadata[m].target>> : i \in closing}
              IN  /\ Cardinality(closing) <= 1
                  /\ Cardinality(labels) <= 1
                  /\ (\E t \in tested : t[1] <= t[2] /\ t[1] >= t[3])
                     => labels = {"STOP_LOSS"}]_vars

\* an engine sweep has closed a position whose price was at or below its
\* stop-loss and at or above its target: one order, labelled STOP_LOSS
C12_Witness ==
    /\ call = "engine.check_stop_loss_targets"
    /\ Len(ret.auto_orders) = 1
    /\ ret.auto_orders[1].trigger = "STOP_LOSS"
    /\ ret.auto_orders[1].status = "SUCCESS"
    /\ \E i \in DOMAIN auto.engine.portfolio.closed_positions :
         LET position == auto.engine.portfolio.closed_positions[i]
         IN  /\ position.stop_loss # None
             /\ position.current_price <= position.stop_loss
             /\ position.current_price >= position.target
             /\ position.position_id + 1 = ret.auto_orders[1].order_id

\* C18: get_results is read-only and idempotent: it changes nothing of the
\* AutomatedTradingEngine or its portfolio, and a second call right after a
\* first one returns the same report.
C18_ResultsReadOnlyIdempotent ==
    [][call' = "get_results" =>
         /\ auto' = auto
         /\ (call = "get_results" => response' = response)]_vars

\* a report with a closed trade and an open position has been returned
C18_Witness ==
    /\ call = "get_results"
    /\ Len(response.executed_trades) > 0
    /\ response.portfolio.open_positions_count > 0
    /\ response.portfolio.final_value # response.portfolio.initial_capital

(***************************************************************************)
(* Properties of the automated-trading sessions                            *)
(***************************************************************************)
TerminalStatuses == {"completed", "error", "stopped"}

\* the step is a step of a background task
TaskStep == call' \in {"run_historical_trading", "run_live_trading"}

\* the step is the stop of session sid, the only registered one
StopOf(sid) ==
    /\ call' = "stop_trading"
    /\ response'.status_code = 200
    /\ DOMAIN active_engines = {sid}

\* C15: the status of a session moves only from running to completed, error
\* or stopped, and a terminal status never changes; a start under the same
\* id begins another session and is left out
C15_StatusOnlyRunningToTerminal ==
    [][\A sid \in DOMAIN background_tasks_status
                    \cap DOMAIN background_tasks_status' :
         call' # "start" =>
           /\ background_tasks_status[sid].status \in TerminalStatuses
                => background_tasks_status'[sid].status
                     = background_tasks_status[sid].status
           /\ background_tasks_status'[sid].status
                # background_tasks_status[sid].status
                => /\ background_tasks_status[sid].status = "running"
                   /\ background_tasks_status'[sid].status \in TerminalStatuses
      ]_vars

\* C16: once stop has set the status of a session to stopped, no step of a
\* background task runs another pass of the loop on its engine or changes
\* its orders or positions
C16_NoActivityAfterStop ==
    [][\A sid \in DOMAIN background_tasks_status \cap DOMAIN active_engines :
         /\ background_tasks_status[sid].status = "stopped"
         /\ TaskStep
         => /\ heap'[active_engines[sid]].engine.orders
                 = heap[active_engines[sid]].engine.orders
            /\ heap'[active_engines[sid]].engine.portfolio.positions
                 = heap[active_engines[sid]].engine.portfolio.positions
            /\ \A t \in DOMAIN tasks :
                 tasks[t].engine = active_engines[sid]
                   => tasks'[t].processed = tasks[t].processed
      ]_vars

\* C17 as claimed: stop leaves the session without open positions, every
\* position open before it is in closed_positions after it, and its exit
\* price is the current_price it had when stop was called
C17_StopLiquidatesAtCurrentPrice ==
    [][\A sid \in SessionIds :
         StopOf(sid) =>
           LET before == heap[active_engines[sid]].engine.portfolio
               after == heap'[active_engines[sid]].engine.portfolio
           IN  /\ after.positions = <<>>
               /\ \A i \in DOMAIN before.positions :
                    \E j \in DOMAIN after.closed_positions :
                      /\ j > Len(before.closed_positions)
                      /\ after.closed_positions[j].position_id
                           = before.positions[i].position_id
                      /\ ~after.closed_positions[j].is_open
                      /\ after.closed_positions[j].exit_price
                           = before.positions[i].current_price
      ]_vars

\* C17 as amended: stop leaves the session without open positions, every
\* position open before it is in closed_positions after it, closed by an
\* order placed at the current_price it had, and its exit price is that
\* price less the 0.1% slippage of a SELL, to the paisa
C17_StopLiquidatesAtCurrentPriceLessSlippage ==
    [][\A sid \in SessionIds :
         StopOf(sid) =>
           LET before == heap[active_engines[sid]].engine
               after == heap'[active_engines[sid]].engine
           IN  /\ after.portfolio.positions = <<>>
               /\ Len(after.orders)
                    = Len(before.orders) + Len(before.portfolio.positions)
               /\ \A i \in DOMAIN before.portfolio.positions :
                    /\ after.orders[Len(before.orders) + i].symbol
                         = before.portfolio.positions[i].symbol
                    /\ after.orders[Len(before.orders) + i].status = "EXECUTED"
                    /\ after.orders[Len(before.orders) + i].price
                         = before.portfolio.positions[i].current_price
                    /\ \E j \in DOMAIN after.portfolio.closed_positions :
                         /\ j > Len(before.portfolio.closed_positions)
                         /\ after.portfolio.closed_positions[j].position_id
                              = before.portfolio.positions[i].position_id
                         /\ ~after.portfolio.closed_positions[j].is_open
                         /\ after.portfolio.closed_positions[j].exit_price
                              = after.orders[Len(before.orders) + i].executed_price
                         /\ after.portfolio.closed_positions[j].exit_price * 1000
                              >= before.portfolio.positions[i].current_price * 999
                         /\ after.portfolio.closed_positions[j].exit_price * 1000
                              < before.portfolio.positions[i].current_price * 999
                                  + 1000
      ]_vars

\* a stop has just closed two positions whose current price had moved away
\* from their entry price
C17_Witness ==
    /\ call = "stop_trading"
    /\ response.status_code = 200
    /\ \E sid \in DOMAIN active_engines :
         LET eng == heap[active_engines[sid]].engine
             n == Len(eng.orders)
             c == Len(eng.portfolio.closed_positions)
         IN  /\ eng.portfolio.positions = <<>>
             /\ n >= 4
             /\ c >= 2
             /\ \A k \in {n - 1, n} :
                  /\ eng.orders[k].side = "SELL"
                  /\ eng.orders[k].status = "EXECUTED"
                  /\ eng.orders[k].price = Q90
             /\ \A k \in {c - 1, c} :
                  /\ eng.portfolio.closed_positions[k].exit_reason = "None"
                  /\ eng.portfolio.closed_positions[k].entry_price # Q90

\* C32: the response of a stop lists in closed_positions every position the
\* stop liquidated, and the count of its message is the number of positions
\* that were open when it was called
C32_StopListsClosedPositions ==
    [][\A sid \in SessionIds :
         StopOf(sid) =>
           LET before == heap[active_engines[sid]].engine.portfolio
               after == heap'[active_engines[sid]].engine.portfolio
           IN  /\ response'.closed_count = Len(before.positions)
               /\ \A i \in DOMAIN before.positions :
                    ~has_position(after, before.positions[i].symbol)
                    => \E j \in DOMAIN response'.closed_positions :
                         response'.closed_positions[j].symbol
                           = before.positions[i].symbol
      ]_vars

\* the symbols that are keys of dict d
KeysOf(d) == {d[i].symbol : i \in DOMAIN d}

\* C37: in every automated session, after each step of its loop and after a
\* stop, the symbols of position_metadata are the symbols with an open
\* position
C37_MetadataMatchesOpenPositions ==
    \A h \in DOMAIN heap :
        KeysOf(heap[h].position_metadata)
          = KeysOf(heap[h].engine.portfolio.positions)

\* C40: a session that was started and deleted stays deleted until it is
\* started again: its id is in neither registry and its status is answered
\* not_found, whatever its background task does
C40_DeletedStaysDeleted ==
    [][\A sid \in SessionIds :
         (/\ \E t \in DOMAIN tasks : tasks[t].session_id = sid
          /\ sid \notin DOMAIN active_engines
          /\ sid \notin DOMAIN background_tasks_status
          /\ call' # "start")
         => /\ sid \notin DOMAIN active_engines'
            /\ sid \notin DOMAIN background_tasks_status'
            /\ get_trading_status(background_tasks_status', sid).status
                 = "not_found"
      ]_vars

\* C19: a historical run that gets no candles for any symbol ends before
\* its loop with an error: no candle is processed, the engine is as it was
\* created and the status of the session is error with a message
C19_NoDataIsAnError ==
    [][\A t \in DOMAIN tasks :
         /\ tasks[t].symbol_data = "unfetched"
         /\ tasks'[t].symbol_data = "none"
         => /\ tasks'[t].pc = "done"
            /\ tasks'[t].processed = 0
            /\ heap'[tasks[t].engine] = heap[tasks[t].engine]
            /\ heap'[tasks[t].engine].engine.orders = <<>>
            /\ heap'[tasks[t].engine].engine.portfolio.current_capital
                 = heap'[tasks[t].engine].config.initial_capital
            /\ tasks[t].session_id \in DOMAIN background_tasks_status'
            /\ background_tasks_status'[tasks[t].session_id].status = "error"
            /\ background_tasks_status'[tasks[t].session_id].error # "None"
      ]_vars

\* a historical task has just ended on a data source without candles
C19_Witness ==
    /\ call = "run_historical_trading"
    /\ \E t \in DOMAIN tasks :
         /\ tasks[t].symbol_data = "none"
         /\ tasks[t].pc = "done"
         /\ tasks[t].session_id \in DOMAIN background_tasks_status
         /\ background_tasks_status[tasks[t].session_id].status = "error"

\* C20: a start request with an unknown mode, an unknown strategy, a
\* missing date in HISTORICAL mode or a start date after the end date is
\* answered 400 and registers no engine, no status and no task
C20_InvalidConfigRejectedWith400 ==
    [][/\ call' = "start"
       /\ response'.detail \in {"Invalid mode", "Invalid strategies",
                                "start_date and end_date are required",
                                "start_date must be before end_date"}
       => /\ response'.status_code = 400
          /\ UNCHANGED <<heap, active_engines, background_tasks_status, tasks>>
      ]_vars

(***************************************************************************)
(* Properties of the reports                                               *)
(***************************************************************************)
\* C24: the trade statistics count the closed positions only and partition
\* them: total_trades is the number of closed positions and every one of
\* them is either a winning or a losing trade
C24_TradeStatisticsPartition ==
    LET m == get_performance_metrics(engine)
    IN  /\ m.total_trades = Len(engine.portfolio.closed_positions)
        /\ m.winning_trades + m.losing_trades = m.total_trades

\* C23: every entry of the report's executed-trade list carries the exit
\* reason of the way its position was closed: STOP_LOSS or TARGET for a
\* position the sweep closed and SIGNAL_EXIT for one an opposite signal
\* closed in execute_signal (AUTO_EXIT is left to the forced liquidation)
C23_ExitReasonMatchesClose ==
    [][\A i \in DOMAIN auto'.engine.portfolio.closed_positions :
         i > Len(auto.engine.portfolio.closed_positions) =>
           LET reason == get_results(auto', 1).executed_trades[i].exit_reason
           IN  /\ call' = "AutomatedTradingEngine.check_stop_loss_targets"
                    => reason \in {"STOP_LOSS", "TARGET"}
               /\ call' = "execute_signal" => reason = "SIGNAL_EXIT"
      ]_vars

\* C26: on the engine of the example a BUY of 10 at 2,500 followed by a
\* SELL of 10 at 2,600 on the same symbol both execute, and every executed
\* round trip of a quantity executes the BUY at quote x 1.001 and the SELL
\* at quote x 0.999, reports the realized P&L (sell x 0.999 - buy x 1.001)
\* x quantity - 2 x brokerage for the trade and ends with current_capital
\* equal to the initial capital plus that amount
C26_RoundTripNetOfCosts ==
    LET o == engine.orders
        portfolio == engine.portfolio
    IN  /\ Len(o) = 2
        /\ o[1].side = "BUY"
        /\ o[2].side = "SELL"
        /\ o[1].symbol = o[2].symbol
        /\ o[1].quantity = o[2].quantity
        => /\ o[1].price = R2500 /\ o[2].price = R2600 /\ o[1].quantity = 10
                => o[1].status = "EXECUTED" /\ o[2].status = "EXECUTED"
           /\ o[1].status = "EXECUTED" /\ o[2].status = "EXECUTED"
                => LET net == ((o[2].price * 999 - o[1].price * 1001)
                                  * o[1].quantity) \div 1000
                               - 2 * portfolio.brokerage_per_trade
                   IN  /\ o[1].executed_price * 1000 = o[1].price * 1001
                       /\ o[2].executed_price * 1000 = o[2].price * 999
                       /\ engine.trades[2].realized_pnl = net
                       /\ portfolio.current_capital
                            = portfolio.initial_capital + net

(***************************************************************************)
(* Properties of the historical replay                                     *)
(***************************************************************************)
\* a step of the replay that makes the pass of one timestamp
PassStep ==
    /\ call' = "run_historical_backtest"
    /\ tasks'[1].processed = tasks[1].processed + 1

\* the candles of the run and the timestamp of the pass of a PassStep
ReplayData == fetch_symbol_data(auto, tasks[1].symbol_data)

ReplayTimestamp == sorted_timestamps(ReplayData)[tasks[1].processed + 1]

\* the candles of symbol that are not later than ts
CandlesUpTo(symbol, ts) ==
    SelectSeq(ReplayData[symbol], LAMBDA c : c.timestamp <= ts)

\* what a PassStep appended to the signals, the orders and the closed
\* positions of the engine
NewSignals ==
    SubSeq(auto'.all_signals, Len(auto.all_signals) + 1, Len(auto'.all_signals))

NewOrders ==
    SubSeq(auto'.engine.orders, Len(auto.engine.orders) + 1,
           Len(auto'.engine.orders))

NewClosed ==
    SubSeq(auto'.engine.portfolio.closed_positions,
           Len(auto.engine.portfolio.closed_positions) + 1,
           Len(auto'.engine.portfolio.closed_positions))

\* the positions a PassStep opened
NewPositions ==
    SelectSeq(auto'.engine.portfolio.positions,
              LAMBDA p : \A i \in DOMAIN auto.engine.portfolio.positions :
                           auto.engine.portfolio.positions[i].position_id
                             # p.position_id)

\* C21: when the indicator of a strategy raises for a symbol at a timestamp,
\* the pass of that timestamp ends normally and the replay goes on: the
\* failing strategy contributes no signal for the symbol, and every other
\* configured strategy contributes the signal its generator computes.
C21_GeneratorErrorsAreContained ==
    [][PassStep =>
         \A symbol \in DOMAIN ReplayData :
           LET frame == CandlesUpTo(symbol, ReplayTimestamp)
           IN  (/\ Len(frame) >= MinCandles
                /\ frame[Len(frame)].faulty # {})
               => /\ tasks'[1].pc = "loop"
                  /\ \A i \in DOMAIN auto.config.strategies :
                       LET strategy_name == auto.config.strategies[i]
                           voted == \E k \in DOMAIN NewSignals :
                                      /\ NewSignals[k].symbol = symbol
                                      /\ NewSignals[k].strategy_name = strategy_name
                       IN  IF strategy_name \in frame[Len(frame)].faulty
                           THEN ~voted
                           ELSE generate(strategy_name, symbol, frame).signal
                                    \in {"BUY", "SELL"}
                                => \E k \in DOMAIN NewSignals :
                                     NewSignals[k] =
                                       generate(strategy_name, symbol, frame)
      ]_vars

\* the replay went past timestamp 36, where the MACD indicator raised: the
\* Bollinger strategy voted there and the MACD strategy did not
C21_Witness ==
    /\ tasks # <<>>
    /\ tasks[1].pc = "loop"
    /\ tasks[1].symbol_data = "trend"
    /\ tasks[1].processed = 37
    /\ \E k \in DOMAIN auto.all_signals :
         /\ auto.all_signals[k].timestamp = 36
         /\ auto.all_signals[k].strategy_name = "BOLLINGER"
    /\ \A k \in DOMAIN auto.all_signals :
         auto.all_signals[k].timestamp = 36
           => auto.all_signals[k].strategy_name # "MACD"

\* C27: the replay takes the distinct timestamps of the data once each in
\* increasing order, and the pass of a timestamp sweeps stops and targets,
\* then marks the positions, then runs the strategies, then records the
\* day's P&L: the orders of the sweep precede the orders of the signals,
\* the positions that stay open are marked at the close of the timestamp
\* while a position opened in the pass stands at its entry price, the P&L
\* recorded for a new day is the one after the pass, and no position opened
\* in the pass is closed in it.
C27_ReplayOrder ==
    [][PassStep =>
         LET timestamps == sorted_timestamps(ReplayData)
             ts == ReplayTimestamp
             all_timestamps ==
                 UNION { {ReplayData[symbol][i].timestamp :
                             i \in DOMAIN ReplayData[symbol]} :
                         symbol \in DOMAIN ReplayData }
             swept == SelectSeq(NewClosed,
                                LAMBDA p : p.exit_reason \in {"STOP_LOSS", "TARGET"})
             before == auto.engine.portfolio
             after == auto'.engine.portfolio
         IN  /\ {timestamps[i] : i \in DOMAIN timestamps} = all_timestamps
             /\ \A i, j \in DOMAIN timestamps :
                  i < j => timestamps[i] < timestamps[j]
             \* (1) before (3)
             /\ Len(swept) <= Len(NewOrders)
             /\ \A k \in DOMAIN swept :
                  /\ NewOrders[k].symbol = swept[k].symbol
                  /\ \E i \in DOMAIN before.positions :
                       before.positions[i].position_id = swept[k].position_id
             \* (2): the mark at the close of ts, before (3)
             /\ \A i \in DOMAIN after.positions :
                  LET p == after.positions[i]
                      at == SelectSeq(ReplayData[p.symbol],
                                      LAMBDA c : c.timestamp = ts)
                  IN  IF \E k \in DOMAIN NewPositions : NewPositions[k] = p
                      THEN p.current_price = p.entry_price
                      ELSE at # <<>> => p.current_price = at[1].close
             \* (4) after (1) to (3)
             /\ fromtimestamp_date(ts) \notin DOMAIN auto.daily_pnl
                  => /\ fromtimestamp_date(ts) \in DOMAIN auto'.daily_pnl
                     /\ auto'.daily_pnl[fromtimestamp_date(ts)] = total_pnl(after)
             /\ \A k \in DOMAIN NewPositions : \A j \in DOMAIN after.closed_positions :
                  after.closed_positions[j].position_id
                    # NewPositions[k].position_id
      ]_vars

\* the pass of timestamp 41 swept the position of A at its stop and then
\* opened positions on the signals of the same timestamp
C27_Witness ==
    /\ tasks # <<>>
    /\ tasks[1].processed = 41
    /\ \E j \in DOMAIN auto.engine.portfolio.closed_positions :
         /\ auto.engine.portfolio.closed_positions[j].symbol = "A"
         /\ auto.engine.portfolio.closed_positions[j].exit_reason = "STOP_LOSS"
    /\ \E i \in DOMAIN auto.engine.portfolio.positions :
         /\ auto.engine.portfolio.positions[i].symbol = "A"
         /\ auto.position_metadata[
                KeyIndex(auto.position_metadata, "A")].entry_time = 41

\* C28: the pass of a timestamp ts produces signals from candles not later
\* than ts only, and produces no signal and places no order for a symbol
\* that has fewer than 30 candles up to ts.
C28_NoLookAhead ==
    [][PassStep =>
         LET enough(symbol) ==
                 /\ symbol \in DOMAIN ReplayData
                 /\ Cardinality({i \in DOMAIN ReplayData[symbol] :
                                   ReplayData[symbol][i].timestamp
                                     <= ReplayTimestamp}) >= 30
         IN  /\ \A k \in DOMAIN NewSignals :
                  /\ NewSignals[k].timestamp <= ReplayTimestamp
                  /\ enough(NewSignals[k].symbol)
             /\ \A k \in DOMAIN NewOrders : enough(NewOrders[k].symbol)
      ]_vars

\* at timestamp 40 of the staggered data B has 29 candles, the one of
\* timestamp 35 with a MACD crossing and a band touch among them: A was
\* traded and B has neither signals nor orders
C28_Witness ==
    /\ tasks # <<>>
    /\ tasks[1].symbol_data = "staggered"
    /\ tasks[1].processed = 40
    /\ auto.all_signals # <<>>
    /\ auto.engine.orders # <<>>
    /\ \A k \in DOMAIN auto.all_signals : auto.all_signals[k].symbol = "A"
    /\ \A k \in DOMAIN auto.engine.orders : auto.engine.orders[k].symbol = "A"

\* C29: after each pass daily_pnl has exactly one entry for each calendar
\* day of the timestamps processed so far; the entry of a new day is the
\* portfolio's total P&L after the pass, and no pass changes the entry of a
\* day that has one.
C29_DailyPnlWrittenOnce ==
    [][PassStep =>
         LET timestamps == sorted_timestamps(ReplayData)
             current_date == fromtimestamp_date(ReplayTimestamp)
         IN  /\ DOMAIN auto'.daily_pnl =
                    {fromtimestamp_date(timestamps[i]) :
                        i \in 1 .. tasks'[1].processed}
             /\ \A day \in DOMAIN auto.daily_pnl :
                  auto'.daily_pnl[day] = auto.daily_pnl[day]
             /\ current_date \notin DOMAIN auto.daily_pnl
                  => auto'.daily_pnl[current_date]
                       = total_pnl(auto'.engine.portfolio)
      ]_vars

\* the second day still has the P&L of its first timestamp after the P&L
\* of the portfolio moved during the day, and the third day was recorded
\* with the loss of the stop
C29_Witness ==
    /\ tasks # <<>>
    /\ tasks[1].processed = 41
    /\ DOMAIN auto.daily_pnl = {1, 2, 3}
    /\ auto.daily_pnl[2] = 0
    /\ auto.daily_pnl[3] < 0
    /\ auto.daily_pnl[3] = total_pnl(auto.engine.portfolio)

\* C39: the equity_curve point of a day has the portfolio_value the ledger
\* had when the entry of the day was recorded (cash + invested + unrealized,
\* net of the brokerage paid)
C39_EquityPointIsLedgerValue ==
    [][PassStep =>
         LET current_date == fromtimestamp_date(ReplayTimestamp)
         IN  current_date \notin DOMAIN auto.daily_pnl
             => /\ current_date \in DOMAIN auto'.daily_pnl
                /\ \A now \in Now :
                     get_results(auto', now).equity_curve[current_date]
                         .portfolio_value
                       = portfolio_value(auto'.engine.portfolio)
      ]_vars

\* C30: every task of a HISTORICAL session ends, and the step that ends it
\* leaves the status of its session completed or error.
C30_HistoricalRunEnds ==
    /\ \A t \in 1 .. MaxStarts :
         [](t \in DOMAIN tasks /\ tasks[t].mode = "HISTORICAL"
              => <>(t \in DOMAIN tasks /\ tasks[t].pc = "done"))
    /\ [][\A t \in DOMAIN tasks :
            (/\ tasks[t].mode = "HISTORICAL"
             /\ tasks[t].pc # "done"
             /\ tasks'[t].pc = "done")
            => /\ tasks[t].session_id \in DOMAIN background_tasks_status'
               /\ background_tasks_status'[tasks[t].session_id].status
                    \in {"completed", "error"}
       ]_vars

\* a run over all 41 timestamps has ended with its report
C30_Witness ==
    \E t \in DOMAIN tasks :
        /\ tasks[t].mode = "HISTORICAL"
        /\ tasks[t].pc = "done"
        /\ tasks[t].processed = 41
        /\ tasks[t].session_id \in DOMAIN background_tasks_status
        /\ background_tasks_status[tasks[t].session_id].status = "completed"

(***************************************************************************)
(* Properties of the strategy generators                                   *)
(***************************************************************************)
\* C25: a strategy votes at a bar only when its condition became true at
\* that bar, so no strategy votes for the same side at two consecutive bars.
C25_VoteOnlyOnCrossing ==
    [][call' = "run_strategies" =>
         \A i \in DOMAIN signals : \A j \in DOMAIN signals' :
           ~(/\ signals'[j].strategy_name = signals[i].strategy_name
             /\ signals'[j].signal = signals[i].signal)
      ]_vars

(***************************************************************************)
(* Properties of the sessions                                              *)
(***************************************************************************)
\* the request of the step names session session_id
OperationOn(session_id) ==
    \/ PaperPlaceOrder(session_id)
    \/ PaperUpdatePrices(session_id)
    \/ ResetEngine(session_id)
    \/ PaperDeleteSession(session_id)
    \/ StopTradingOf(session_id)
    \/ DeleteSessionOf(session_id)

\* the step leaves the session with key k as it is: its engine with the
\* portfolio and the orders, its status and its results
SessionUntouched(k) ==
    /\ (k \in DOMAIN paper_trading_engines) = (k \in DOMAIN paper_trading_engines')
    /\ k \in DOMAIN paper_trading_engines
         => paper_trading_engines'[k] = paper_trading_engines[k]
    /\ (k \in DOMAIN active_engines) = (k \in DOMAIN active_engines')
    /\ k \in DOMAIN active_engines
         => /\ active_engines'[k] = active_engines[k]
            /\ heap'[active_engines[k]] = heap[active_engines[k]]
    /\ (k \in DOMAIN background_tasks_status)
         = (k \in DOMAIN background_tasks_status')
    /\ k \in DOMAIN background_tasks_status
         => background_tasks_status'[k] = background_tasks_status[k]

ActiveLoops(ts, sid) ==
    {t \in DOMAIN ts : ts[t].session_id = sid /\ ts[t].pc # "done"}

\* C31: at most one background loop is active per session id: after every
\* step a session has at most one task that has not ended, and a start
\* accepted for a session whose loop is still running leaves the session's
\* engine and status as they were and adds no task
C31_OneLoopPerSession ==
    [][\A sid \in SessionIds :
         /\ Cardinality(ActiveLoops(tasks', sid)) <= 1
         /\ (/\ call' = "start"
             /\ response'.status_code = 200
             /\ ActiveLoops(tasks, sid) # {})
            => /\ active_engines'[sid] = active_engines[sid]
               /\ background_tasks_status' = background_tasks_status
               /\ tasks' = tasks
      ]_vars

(***************************************************************************)
(* Properties of either engine under wider inputs (SpecEngines)            *)
(***************************************************************************)
\* the PaperTradingEngine the behaviour exercises
TheEngine == IF OnPaperEngine THEN engine ELSE auto.engine

C34_CashNeverNegative == TheEngine.portfolio.current_capital >= 0

(***************************************************************************)
(* Properties of the ledger of the single-caller engine (Spec)             *)
(***************************************************************************)
\* the orders of the history with the given side and status
OrdersWith(side, status) ==
    {i \in DOMAIN engine.orders :
        engine.orders[i].side = side /\ engine.orders[i].status = status}

Executed == OrdersWith("BUY", "EXECUTED") \cup OrdersWith("SELL", "EXECUTED")

\* C35: total_brokerage_paid is brokerage_per_trade times the number of
\* EXECUTED orders, which is the length of the trades list; every trade is
\* the trade of an EXECUTED order charged one brokerage, and no REJECTED
\* order has a trade
C35_BrokeragePerExecutedOrder ==
    /\ pf.total_brokerage_paid
         = pf.brokerage_per_trade * Cardinality(Executed)
    /\ Cardinality(Executed) = Len(engine.trades)
    /\ \A k \in DOMAIN engine.trades :
         /\ engine.trades[k].brokerage = pf.brokerage_per_trade
         /\ \E i \in Executed :
              engine.orders[i].order_id = engine.trades[k].order_id
    /\ \A i \in DOMAIN engine.orders :
         engine.orders[i].status = "REJECTED"
         => \A k \in DOMAIN engine.trades :
              engine.trades[k].order_id # engine.orders[i].order_id

\* an engine that charges brokerage has executed one order and rejected
\* another
C35_Witness ==
    /\ pf.brokerage_per_trade > 0
    /\ Len(engine.orders) = 2
    /\ engine.orders[1].status = "EXECUTED"
    /\ engine.orders[2].status = "REJECTED"
    /\ pf.total_brokerage_paid = pf.brokerage_per_trade
    /\ Len(engine.trades) = 1

\* C36: open and closed positions partition the positions created: every
\* position of the open map is open and alone under its symbol (the map is
\* the sequence of its values, each stored under its own symbol), every
\* closed position is not open and has an exit price, no position is in
\* both, and the open positions are as many as the executed BUY orders less
\* the executed SELL orders
C36_OpenClosedPartition ==
    /\ \A i \in DOMAIN pf.positions :
         /\ pf.positions[i].is_open
         /\ KeyIndex(pf.positions, pf.positions[i].symbol) = i
    /\ \A j \in DOMAIN pf.closed_positions :
         /\ ~pf.closed_positions[j].is_open
         /\ pf.closed_positions[j].exit_price # None
    /\ \A i \in DOMAIN pf.positions, j \in DOMAIN pf.closed_positions :
         pf.positions[i].position_id # pf.closed_positions[j].position_id
    /\ Len(pf.positions)
         = Cardinality(OrdersWith("BUY", "EXECUTED"))
             - Cardinality(OrdersWith("SELL", "EXECUTED"))

\* a position was opened by a BUY and closed by a SELL: it is in
\* closed_positions and no longer in the map
C36_Witness ==
    /\ Cardinality(OrdersWith("BUY", "EXECUTED")) = 1
    /\ Cardinality(OrdersWith("SELL", "EXECUTED")) = 1
    /\ pf.positions = <<>>
    /\ Len(pf.closed_positions) = 1
    /\ ~pf.closed_positions[1].is_open
    /\ pf.closed_positions[1].position_id = engine.orders[1].order_id

\* C38: the BUY order execute_signal places for an aggregated BUY signal, on
\* a symbol without a position and with the open count below the maximum,
\* is never rejected by the max-position-size check of the engine
C38_SizedOrderFitsTheLimit ==
    [][(/\ ~OnPaperEngine
        /\ call' = "execute_signal"
        /\ Len(auto'.engine.orders) = Len(auto.engine.orders) + 1)
       => LET order == auto'.engine.orders[Len(auto'.engine.orders)]
          IN  (/\ order.side = "BUY"
               /\ order.quantity >= 1
               /\ ~has_position(auto.engine.portfolio, order.symbol)
               /\ ~max_positions_reached(auto.engine))
              => order.rejection_reason # "Position size exceeds limit"
      ]_vars

====
